---- MODULE Spec2Model ----
(***************************************************************************)
(* A model of @dreamer/webrtc: the signaling server's room/user registry   *)
(* and router (src/src/server/mod.ts), the client's RTCPeerConnection pool *)
(* and its architecture-mode (mesh / sfu / auto) state machine             *)
(* (src/src/client/client.ts).                                             *)
(*                                                                         *)
(* Four specifications share the module's variables:                       *)
(*   RegistrySpec  the server's registry under membership events           *)
(*   ServerSpec    the registry and the router, with the flush timers      *)
(*   PoolSpec      one RTCPeerConnectionPool, driven by its callers        *)
(*   ClientSpec    one RTCClient's architecture mode state machine         *)
(***************************************************************************)
EXTENDS Integers, Sequences, FiniteSets, TLC

(***************************************************************************)
(* Bounds of the model.                                                    *)
(***************************************************************************)
MaxSockets == 3
MaxNamedUsers == 1
MaxRooms == 2
\* The number of transport events the server handles in one run.
MaxEvents == 6
\* The same, for runs that include signaling messages and flush timers.
MaxRouterEvents == 5
\* The RTCPeerConnection objects one run constructs.
MaxHandles == 3
\* The cap of the pool's released counter.
MaxReleased == 4
\* The largest meshToSFUThreshold a caller configures.
MaxThreshold == 3
\* The largest room population a client is told of.
MaxUserCount == 4
\* The number of events and calls the client handles in one run.
MaxClientEvents == 5
MaxPeers == 2
MaxRoomEvents == 10
MaxSamples == 2
MaxApplied == 2
MaxConnEvents == 9
MaxDisconnects == 2
MaxSfuUsers == 2
MaxCalls == 2

Undefined == "undefined"

SocketNames == <<"s1", "s2", "s3", "s4", "s5">>
UserNames == <<"alice", "bob", "carol", "dave">>
RoomNames == <<"r1", "r2", "r3", "r4">>

SocketIds == {SocketNames[i] : i \in 1..MaxSockets}
NamedUsers == {UserNames[i] : i \in 1..MaxNamedUsers}
RoomIds == {RoomNames[i] : i \in 1..MaxRooms}
\* A user id is the id the client names, or the socket's id when it names none.
UserIds == NamedUsers \cup SocketIds

\* The SignalingMessage kinds the router tells apart.
ArchitectureModes == {"mesh", "sfu", "auto"}
\* Date.now() - startTime of one handled message, below and above the 100 ms mark.
Latencies == {0, 101}

(***************************************************************************)
(* JavaScript Map and Array helpers.                                       *)
(***************************************************************************)
EmptyMap == [k \in {} |-> Undefined]
MapHas(m, k) == k \in DOMAIN m
MapGet(m, k) == IF k \in DOMAIN m THEN m[k] ELSE Undefined
MapSet(m, k, v) == [x \in (DOMAIN m) \cup {k} |-> IF x = k THEN v ELSE m[x]]
MapDelete(m, k) == [x \in (DOMAIN m) \ {k} |-> m[x]]

Range(seq) == {seq[i] : i \in DOMAIN seq}
Includes(seq, x) == x \in Range(seq)
\* Array.prototype.filter((id) => id !== x)
FilterOut(seq, x) == SelectSeq(seq, LAMBDA id : id # x)

VARIABLES
  \* ---- signaling server ----
  sockets,            \* transport: socket id -> "fresh" | "open" | "closed"
  ioRooms,            \* transport: socket id -> the Socket.IO rooms it joined
  rooms,              \* Map roomId -> RoomInfo
  users,              \* Map userId -> UserInfo
  socketToUser,       \* Map socketId -> userId
  userToSocket,       \* Map userId -> socketId
  stats,              \* messagesReceived, messagesSent, messagesDelayed
  messageLatencies,   \* the recorded latencies
  messageQueue,       \* Map roomId -> queued ICE candidate messages
  messageQueueTimers, \* the rooms this.messageQueueTimers has a timer for
  flushTimeouts,      \* per room, the setTimeout timers of its flush that
                      \* have neither fired nor been cleared
  emitted,            \* the emit calls of the last handler, in order
  lastEvent,          \* the event the last handler handled
  eventCount,         \* the number of events handled so far
  joinedNotLeft,      \* history: <<room, user>> joined and not since left
  \* ---- RTCPeerConnectionPool ----
  activeConnections,  \* Set of the handles in use
  pendingClose,       \* the handles with a pending close timer
  closedConnections,  \* the handles close() was called on
  poolStats,          \* created, released, active
  configCache,        \* Map configKey -> RTCConfiguration, in insertion order
  nextHandle,         \* the identity of the next constructed RTCPeerConnection
  lastPoolOp,         \* the last pool operation and what it returned
  \* ---- RTCClient ----
  options,                  \* architectureMode, meshToSFUThreshold, sfuOptions
  currentArchitectureMode,
  roomUserCount,
  clientRoomId,             \* this.roomId
  peerConnection,           \* this.peerConnection, NoConnection when undefined
  sfuConnected,             \* sfuAdapter.connected
  clientEmitted,            \* the socket.emit calls of the last client handler
  lastClientEvent,          \* the last client handler and its input
  clientEventCount,         \* the number of events the client handled so far
  \* ---- the clients of one room and their sockets ----
  peerOptions,        \* per client: the options it was constructed with
  peerMode,           \* per client: currentArchitectureMode
  peerCount,          \* per client: roomUserCount
  peerRoomId,         \* per client: this.roomId
  inbox,              \* per client: the server's events not yet handled
  outbox,             \* per client: its requests the server has not handled
  \* ---- RTCClient: the quality adapter ----
  networkStats,       \* bandwidth, packetLoss, rtt, lastUpdate
  currentQuality,
  localStream,        \* whether this.localStream is set
  lastQualityOp,      \* what the last step of the adapter was
  \* ---- RTCClient: the signaling messages it receives ----
  processedSignalingIds,  \* the ids of SignalingMessages in the Set
  otherIds,               \* how many ids of other messages the Set holds
  applied,                \* per message: how often a connection was given it
  lastSignaling,          \* the last message received
  \* ---- RTCClient: its connection state and its signaling socket ----
  hasRTC,             \* whether globalThis.RTCPeerConnection is defined
  connectionState,
  socketState,        \* the socket: closed, opening or open
  connectTimeoutId,   \* whether the connect timeout is pending
  pcNegotiated,       \* whether this.peerConnection got a remote description
  lastConnOp,         \* the last call, event or timer
  sinceDisconnect,    \* the calls of disconnect() since the last connect()
  \* ---- SFUAdapter: subscribe ----
  ontrack,            \* peerConnection.ontrack: whose handler it is
  calls,              \* the calls of subscribe so far and their promises
  lastSfuOp,          \* the last call, event or timer of the adapter
  \* ---- WebRTCManager ----
  servers,            \* this.servers, in insertion order: name and instance
  configs,            \* the names this.configs has a configuration for
  defaultConfig,      \* whether options.defaultServerConfig was given
  instances,          \* each SignalingServer created: open or closed
  closing,            \* whether a close() is under way
  closeAt,            \* how many entries its iteration has passed
  lastManagerOp,      \* the last call of the manager, or step of close()
  \* ---- RTCClient: the mesh peers and the ICE candidates it collects ----
  peerConnections,    \* the users this.peerConnections has a connection for
  iceCandidates,      \* per user with an entry: how many candidates it holds
  iceCandidateTimers, \* the users this.iceCandidateTimers has a timer for
  iceTimeouts,        \* per user, the send timers neither fired nor cleared
  lastIceOp           \* the last call, event or timer

serverVars == <<sockets, ioRooms, rooms, users, socketToUser, userToSocket,
                stats, messageLatencies, messageQueue, messageQueueTimers,
                flushTimeouts,
                emitted, lastEvent, eventCount, joinedNotLeft>>

poolVars == <<activeConnections, pendingClose, closedConnections, poolStats,
              configCache, nextHandle, lastPoolOp>>

clientVars == <<options, currentArchitectureMode, roomUserCount, clientRoomId,
                peerConnection, sfuConnected, clientEmitted, lastClientEvent>>

peerVars == <<peerOptions, peerMode, peerCount, peerRoomId, inbox, outbox>>

qualityVars == <<networkStats, currentQuality, localStream, lastQualityOp>>

\* The parts of the client with a specification of their own.
dedupVars == <<processedSignalingIds, otherIds, applied, lastSignaling>>

connVars == <<hasRTC, connectionState, socketState, connectTimeoutId,
              pcNegotiated, lastConnOp, sinceDisconnect>>

sfuVars == <<ontrack, calls, lastSfuOp>>

managerVars == <<servers, configs, defaultConfig, instances, closing, closeAt,
                 lastManagerOp>>

\* The byte counter of the peer connection and the clock the quality
\* monitor reads, and what the previous sample read from the counter.
VARIABLES
  bytesReceived,      \* cumulative bytesReceived of the inbound-rtp reports
  clock,              \* Date.now(), in seconds
  bytesAtLastSample,  \* the counter as the previous sample read it
  sampleCount         \* samples taken so far

bandwidthVars == <<bytesReceived, clock, bytesAtLastSample, sampleCount>>

\* The offers and answers the client is creating, its retry timers and its
\* error counter.
VARIABLES
  offerTask,          \* where createOffer() is suspended
  answerTask,         \* where the handling of a received offer is suspended
  signalingState,     \* peerConnection.signalingState
  retryTimers,        \* pending retry timeouts of createOffer
  retryDepth,         \* retries that led to the running createOffer
  errorCount,         \* stats.errors
  errorEvents,        \* "error" events emitted since the last resetStats
  lastOfferOp         \* the last thing a task did to a connection or sent

offerVars == <<offerTask, answerTask, signalingState, retryTimers, retryDepth,
               errorCount, errorEvents, lastOfferOp>>

iceVars == <<peerConnections, iceCandidates, iceCandidateTimers, iceTimeouts,
             lastIceOp>>

lateVars == <<bandwidthVars, offerVars>>

moreVars == <<managerVars, iceVars, lateVars>>

partVars == <<qualityVars, dedupVars, connVars, sfuVars, moreVars>>

vars == <<serverVars, poolVars, clientVars, clientEventCount, peerVars,
          partVars>>

(***************************************************************************)
(* Events and emissions.                                                   *)
(***************************************************************************)
\* afterLeave: the event directly follows a leave-room of the same socket.
NoEvent == [op |-> "none", socket |-> Undefined, roomId |-> Undefined,
            userId |-> Undefined, type |-> Undefined, to |-> Undefined,
            afterLeave |-> FALSE]

FollowsLeave(socket) ==
  lastEvent.op = "leave-room" /\ lastEvent.socket = socket

\* The payload fields any emitted event carries; unused ones are Undefined.
NoPayload == [type |-> Undefined, from |-> Undefined, to |-> Undefined,
              roomId |-> Undefined, userId |-> Undefined, users |-> <<>>,
              architectureMode |-> Undefined, error |-> Undefined]

Emission(targets, event, payload) ==
  [targets |-> targets, event |-> event, payload |-> payload]

\* socket.emit(event, payload)
EmitTo(socket, event, payload) == Emission({socket}, event, payload)

\* The sockets currently in Socket.IO room roomId.
InRoomSockets(roomId) ==
  {s \in SocketIds : sockets[s] = "open" /\ roomId \in ioRooms[s]}

\* socket.to(roomId).emit(event, payload): everyone in the room but the sender.
BroadcastTo(socket, roomId, event, payload) ==
  Emission(InRoomSockets(roomId) \ {socket}, event, payload)

(***************************************************************************)
(* Init                                                                    *)
(***************************************************************************)
ServerInit ==
  /\ sockets = [s \in SocketIds |-> "fresh"]
  /\ ioRooms = [s \in SocketIds |-> {}]
  /\ rooms = EmptyMap
  /\ users = EmptyMap
  /\ socketToUser = EmptyMap
  /\ userToSocket = EmptyMap
  /\ stats = [messagesReceived |-> 0, messagesSent |-> 0, messagesDelayed |-> 0]
  /\ messageLatencies = <<>>
  /\ messageQueue = EmptyMap
  /\ messageQueueTimers = {}
  /\ flushTimeouts = [r \in RoomIds |-> 0]
  /\ emitted = <<>>
  /\ lastEvent = NoEvent
  /\ eventCount = 0
  /\ joinedNotLeft = {}

(***************************************************************************)
(* io.on("connection"): a new socket; the server sends it the ICE servers. *)
(***************************************************************************)
Connection(socket) ==
  /\ sockets[socket] = "fresh"
  /\ sockets' = [sockets EXCEPT ![socket] = "open"]
  /\ emitted' = <<EmitTo(socket, "ice-servers", NoPayload)>>
  /\ lastEvent' = [NoEvent EXCEPT !.op = "connection", !.socket = socket]
  /\ UNCHANGED <<ioRooms, rooms, users, socketToUser, userToSocket, stats,
                 messageLatencies, messageQueue, messageQueueTimers, flushTimeouts,
                 joinedNotLeft>>

(***************************************************************************)
(* handleJoinRoom                                                          *)
(***************************************************************************)
\* const actualUserId = userId || socket.id
ActualUserId(socket, userId) == IF userId = Undefined THEN socket ELSE userId

\* The room after "get or create the room" and "add the user if not included".
RoomAfterJoin(roomId, actualUserId) ==
  LET room == IF MapHas(rooms, roomId)
              THEN rooms[roomId]
              ELSE [roomId |-> roomId, users |-> <<>>]
  IN IF Includes(room.users, actualUserId)
     THEN room
     ELSE [room EXCEPT !.users = Append(@, actualUserId)]

\* A room-joined payload that lists the joiner too.
RoomJoinedUsersWithSelf(room, actualUserId) == room.users

\* The users field of the room-joined payload.
RoomJoinedUsers(room, actualUserId) == FilterOut(room.users, actualUserId)

HandleJoinRoom(socket, roomId, userId) ==
  LET actualUserId == ActualUserId(socket, userId)
      room == RoomAfterJoin(roomId, actualUserId)
  IN /\ sockets[socket] = "open"
     /\ users' = MapSet(users, actualUserId,
                        [userId |-> actualUserId, roomId |-> roomId,
                         connected |-> TRUE])
     /\ socketToUser' = MapSet(socketToUser, socket, actualUserId)
     /\ userToSocket' = MapSet(userToSocket, actualUserId, socket)
     /\ rooms' = MapSet(rooms, roomId, room)
     /\ ioRooms' = [ioRooms EXCEPT ![socket] = @ \cup {roomId}]
     /\ emitted' =
          << BroadcastTo(socket, roomId, "user-joined",
                         [NoPayload EXCEPT !.userId = actualUserId,
                                           !.roomId = roomId]),
             EmitTo(socket, "room-joined",
                    [NoPayload EXCEPT !.roomId = roomId,
                                      !.userId = actualUserId,
                                      !.users = RoomJoinedUsers(room, actualUserId)]) >>
     /\ lastEvent' = [NoEvent EXCEPT !.op = "join-room", !.socket = socket,
                                     !.roomId = roomId, !.userId = actualUserId]
     /\ joinedNotLeft' = joinedNotLeft \cup {<<roomId, actualUserId>>}
     /\ UNCHANGED <<sockets, stats, messageLatencies, messageQueue,
                    messageQueueTimers, flushTimeouts>>

(***************************************************************************)
(* handleLeaveRoom                                                         *)
(***************************************************************************)
\* Neither early return of handleLeaveRoom is taken.
LeaveApplies(socket) ==
  /\ MapHas(socketToUser, socket)
  /\ MapHas(users, socketToUser[socket])
  /\ users[socketToUser[socket]].roomId # Undefined

\* A leave that forgets to clear the user's room.
UserAfterLeaveKeepsRoom(userInfo) == [userInfo EXCEPT !.connected = FALSE]

\* userInfo.roomId = undefined; userInfo.connected = false
UserAfterLeave(userInfo) ==
  [userInfo EXCEPT !.roomId = Undefined, !.connected = FALSE]

\* What handleLeaveRoom(socket) leaves behind and emits.
LeaveRoomResult(socket) ==
  IF ~LeaveApplies(socket)
  THEN [rooms |-> rooms, users |-> users, userToSocket |-> userToSocket,
        ioRooms |-> ioRooms, emitted |-> <<>>]
  ELSE LET userId == socketToUser[socket]
           roomId == users[userId].roomId
           hasRoom == MapHas(rooms, roomId)
           remaining == IF hasRoom
                        THEN FilterOut(rooms[roomId].users, userId)
                        ELSE <<>>
       IN [rooms |->
             IF ~hasRoom THEN rooms
             ELSE IF Len(remaining) = 0 THEN MapDelete(rooms, roomId)
             ELSE MapSet(rooms, roomId, [rooms[roomId] EXCEPT !.users = remaining]),
           emitted |->
             IF hasRoom /\ Len(remaining) # 0
             THEN << BroadcastTo(socket, roomId, "user-left",
                                 [NoPayload EXCEPT !.userId = userId,
                                                   !.roomId = roomId]) >>
             ELSE <<>>,
           ioRooms |-> [ioRooms EXCEPT ![socket] = @ \ {roomId}],
           users |-> MapSet(users, userId, UserAfterLeave(users[userId])),
           userToSocket |-> MapDelete(userToSocket, userId)]

\* History: the user bound to the socket has left (or disconnected).
JoinedAfterLeave(socket) ==
  IF MapHas(socketToUser, socket)
  THEN {p \in joinedNotLeft : p[2] # socketToUser[socket]}
  ELSE joinedNotLeft

HandleLeaveRoom(socket) ==
  LET r == LeaveRoomResult(socket)
  IN /\ sockets[socket] = "open"
     /\ rooms' = r.rooms
     /\ users' = r.users
     /\ userToSocket' = r.userToSocket
     /\ ioRooms' = r.ioRooms
     /\ emitted' = r.emitted
     /\ lastEvent' = [NoEvent EXCEPT !.op = "leave-room", !.socket = socket,
                                     !.afterLeave = FollowsLeave(socket)]
     /\ joinedNotLeft' = JoinedAfterLeave(socket)
     /\ UNCHANGED <<sockets, socketToUser, stats, messageLatencies,
                    messageQueue, messageQueueTimers, flushTimeouts>>

(***************************************************************************)
(* handleDisconnect: the transport closes the socket (it is in no          *)
(* Socket.IO room any more), then the handler runs.                        *)
(***************************************************************************)
HandleDisconnect(socket) ==
  LET r == LeaveRoomResult(socket)
      known == MapHas(socketToUser, socket)
      userId == MapGet(socketToUser, socket)
  IN /\ sockets[socket] = "open"
     /\ sockets' = [sockets EXCEPT ![socket] = "closed"]
     /\ ioRooms' = [ioRooms EXCEPT ![socket] = {}]
     /\ rooms' = IF known THEN r.rooms ELSE rooms
     /\ emitted' = IF known THEN r.emitted ELSE <<>>
     /\ socketToUser' = IF known THEN MapDelete(socketToUser, socket)
                        ELSE socketToUser
     /\ userToSocket' = IF known THEN MapDelete(r.userToSocket, userId)
                        ELSE userToSocket
     /\ users' = IF known THEN MapDelete(r.users, userId) ELSE users
     /\ lastEvent' = [NoEvent EXCEPT !.op = "disconnect", !.socket = socket,
                                     !.afterLeave = FollowsLeave(socket)]
     /\ joinedNotLeft' = JoinedAfterLeave(socket)
     /\ UNCHANGED <<stats, messageLatencies, messageQueue, messageQueueTimers, flushTimeouts>>

(***************************************************************************)
(* handleSignaling, queueMessage, sendMessage, recordLatency               *)
(***************************************************************************)
\* A check that lets a registered user without a room through.
SignalingRejectedUnlessRegistered(socket) ==
  \/ ~MapHas(socketToUser, socket)
  \/ ~MapHas(users, socketToUser[socket])

\* One of the two early returns of handleSignaling is taken.
SignalingRejected(socket) ==
  \/ ~MapHas(socketToUser, socket)
  \/ ~MapHas(users, socketToUser[socket])
  \/ users[socketToUser[socket]].roomId = Undefined

ErrorEmission(socket) ==
  EmitTo(socket, "signaling",
         [NoPayload EXCEPT !.type = "error", !.error = "user not in a room"])

IsSfuType(type) == type \in {"sfu-connect", "sfu-disconnect", "sfu-publish",
                             "sfu-subscribe", "sfu-unsubscribe",
                             "sfu-stream-published", "sfu-stream-unpublished"}

\* The socket of a user, when the user is mapped to a connected socket.
FindSocketByUserId(userId) ==
  LET socketId == MapGet(userToSocket, userId)
  IN IF socketId = Undefined THEN Undefined
     ELSE IF sockets[socketId] = "open" THEN socketId ELSE Undefined

MessagePayload(message) ==
  [NoPayload EXCEPT !.type = message.type, !.from = message.from,
                    !.to = message.to, !.roomId = message.roomId]

\* sendMessage(message, socket, roomId): its emit calls and what it adds to
\* stats.messagesSent.
SendMessage(message, socket, roomId) ==
  IF message.to # Undefined
  THEN LET targetSocket == FindSocketByUserId(message.to)
       IN IF targetSocket # Undefined
          THEN [emitted |-> <<EmitTo(targetSocket, "signaling",
                                     MessagePayload(message))>>,
                sent |-> 1]
          ELSE [emitted |-> <<>>, sent |-> 0]
  ELSE [emitted |-> <<BroadcastTo(socket, roomId, "signaling",
                                  MessagePayload(message))>>,
        sent |-> IF MapHas(rooms, roomId)
                 THEN Len(rooms[roomId].users) - 1
                 ELSE 0]

\* recordLatency: the latency list (at most 1000 entries) and the delayed count.
LatenciesAfter(latency) ==
  LET pushed == Append(messageLatencies, latency)
  IN IF Len(pushed) > 1000 THEN Tail(pushed) ELSE pushed

DelayedAfter(latency) ==
  IF latency > 100 THEN stats.messagesDelayed + 1 ELSE stats.messagesDelayed

\* A queueMessage that puts the message in front of the room's queue.
QueueMessageInFront(roomId, message) ==
  MapSet(messageQueue, roomId,
         <<message>> \o (IF MapHas(messageQueue, roomId)
                         THEN messageQueue[roomId] ELSE <<>>))

\* queueMessage(roomId, message, socket): this.messageQueue afterwards.
QueueMessage(roomId, message) ==
  MapSet(messageQueue, roomId,
         Append(IF MapHas(messageQueue, roomId)
                THEN messageQueue[roomId] ELSE <<>>,
                message))

\* A queueMessage that sets a timer for every message it queues.
TimerAlways(roomId) == TRUE

\* if (!this.messageQueueTimers.has(roomId)): queueMessage sets a timer
TimerNeeded(roomId) == roomId \notin messageQueueTimers

\* What a client may have put in the from and roomId of its message.
ClaimedFields ==
  {[from |-> Undefined, roomId |-> Undefined],
   [from |-> UserNames[1], roomId |-> RoomNames[2]]}

\* A router that forwards from and roomId as the client wrote them.
StampedAsClaimed(message, userId, roomId) == message

\* message.from = userId; message.roomId = roomId
Stamped(message, userId, roomId) ==
  [message EXCEPT !.from = userId, !.roomId = roomId]

HandleSignaling(socket, type, to, mode, latency, claimed) ==
  /\ sockets[socket] = "open"
  /\ lastEvent' = [NoEvent EXCEPT !.op = "signaling", !.socket = socket,
                                  !.type = type, !.to = to]
  /\ UNCHANGED <<sockets, ioRooms, rooms, users, socketToUser, userToSocket,
                 joinedNotLeft>>
  /\ IF SignalingRejected(socket)
     THEN /\ emitted' = <<ErrorEmission(socket)>>
          /\ UNCHANGED <<stats, messageLatencies, messageQueue,
                         messageQueueTimers, flushTimeouts>>
     ELSE LET userId == socketToUser[socket]
              roomId == users[userId].roomId
              message == Stamped([type |-> type, from |-> claimed.from,
                                  to |-> to, roomId |-> claimed.roomId],
                                 userId, roomId)
          IN IF type = "architecture-mode"
             THEN /\ emitted' = <<BroadcastTo(socket, roomId, "architecture-mode",
                                    [NoPayload EXCEPT !.architectureMode = mode,
                                                      !.roomId = roomId])>>
                  /\ UNCHANGED <<stats, messageLatencies, messageQueue,
                                 messageQueueTimers, flushTimeouts>>
             ELSE IF IsSfuType(type)
             THEN /\ emitted' = <<BroadcastTo(socket, roomId, "signaling",
                                              MessagePayload(message))>>
                  /\ UNCHANGED <<stats, messageLatencies, messageQueue,
                                 messageQueueTimers, flushTimeouts>>
             ELSE IF type = "ice-candidate"
             THEN /\ messageQueue' = QueueMessage(roomId, message)
                  /\ messageQueueTimers' = messageQueueTimers \cup {roomId}
                  /\ flushTimeouts' =
                       IF TimerNeeded(roomId)
                       THEN [flushTimeouts EXCEPT ![roomId] = @ + 1]
                       ELSE flushTimeouts
                  /\ emitted' = <<>>
                  /\ stats' = [stats EXCEPT
                                 !.messagesReceived = @ + 1,
                                 !.messagesDelayed = DelayedAfter(latency)]
                  /\ messageLatencies' = LatenciesAfter(latency)
             ELSE LET sent == SendMessage(message, socket, roomId)
                  IN /\ emitted' = sent.emitted
                     /\ stats' = [stats EXCEPT
                                    !.messagesReceived = @ + 1,
                                    !.messagesSent = @ + sent.sent,
                                    !.messagesDelayed = DelayedAfter(latency)]
                     /\ messageLatencies' = LatenciesAfter(latency)
                     /\ UNCHANGED <<messageQueue, messageQueueTimers, flushTimeouts>>

(***************************************************************************)
(* flushMessageQueue: the room's batch timer fires.                        *)
(***************************************************************************)
\* The emit calls and the sent count of flushing messages, in order.
RECURSIVE FlushMessages(_, _)
FlushMessages(messages, roomId) ==
  IF messages = <<>>
  THEN [emitted |-> <<>>, sent |-> 0]
  ELSE LET message == Head(messages)
           rest == FlushMessages(Tail(messages), roomId)
           senderSocket == FindSocketByUserId(message.from)
       IN IF senderSocket = Undefined
          THEN rest
          ELSE LET one == SendMessage(message, senderSocket, roomId)
               IN [emitted |-> one.emitted \o rest.emitted,
                   sent |-> one.sent + rest.sent]

FlushMessageQueue(roomId) ==
  LET messages == MapGet(messageQueue, roomId)
      flushed == IF messages = Undefined \/ ~MapHas(rooms, roomId)
                 THEN [emitted |-> <<>>, sent |-> 0]
                 ELSE FlushMessages(messages, roomId)
  IN /\ flushTimeouts[roomId] > 0
     /\ flushTimeouts' = [flushTimeouts EXCEPT ![roomId] = @ - 1]
     /\ emitted' = flushed.emitted
     /\ stats' = [stats EXCEPT !.messagesSent = @ + flushed.sent]
     /\ messageQueue' = MapDelete(messageQueue, roomId)
     /\ messageQueueTimers' = messageQueueTimers \ {roomId}
     /\ lastEvent' = [NoEvent EXCEPT !.op = "flush", !.roomId = roomId]
     /\ UNCHANGED <<sockets, ioRooms, rooms, users, socketToUser, userToSocket,
                    messageLatencies, joinedNotLeft>>

\* A close() that leaves the queues to their timers.
CloseKeepsTheQueues ==
  /\ emitted' = <<>>
  /\ lastEvent' = [NoEvent EXCEPT !.op = "close"]
  /\ UNCHANGED <<sockets, ioRooms, rooms, users, socketToUser, userToSocket,
                 stats, messageLatencies, messageQueue, messageQueueTimers,
                 flushTimeouts, joinedNotLeft>>

\* close(): every flush timer is cleared and both maps are emptied; what
\* io.close() does to the sockets shows as disconnect events of its own.
Close ==
  /\ flushTimeouts' = [r \in RoomIds |->
                         IF r \in messageQueueTimers THEN flushTimeouts[r] - 1
                         ELSE flushTimeouts[r]]
  /\ messageQueueTimers' = {}
  /\ messageQueue' = EmptyMap
  /\ emitted' = <<>>
  /\ lastEvent' = [NoEvent EXCEPT !.op = "close"]
  /\ UNCHANGED <<sockets, ioRooms, rooms, users, socketToUser, userToSocket,
                 stats, messageLatencies, joinedNotLeft>>

(***************************************************************************)
(* The inspection surface.                                                 *)
(***************************************************************************)
GetRoom(roomId) == MapGet(rooms, roomId)

\* stats.averageLatency: recordLatency keeps it the mean of messageLatencies
\* (here its integer part), and it is 0 while there is none.
RECURSIVE SumOf(_)
SumOf(seq) == IF seq = <<>> THEN 0 ELSE Head(seq) + SumOf(Tail(seq))

AverageLatency ==
  IF messageLatencies = <<>> THEN 0
  ELSE SumOf(messageLatencies) \div Len(messageLatencies)

\* A resetStats() that also drops the pending ICE queues.
ResetStatsAndQueues ==
  /\ stats' = [messagesReceived |-> 0, messagesSent |-> 0, messagesDelayed |-> 0]
  /\ messageLatencies' = <<>>
  /\ messageQueue' = EmptyMap
  /\ emitted' = <<>>
  /\ lastEvent' = [NoEvent EXCEPT !.op = "reset-stats"]
  /\ UNCHANGED <<sockets, ioRooms, rooms, users, socketToUser, userToSocket,
                 messageQueueTimers, flushTimeouts, joinedNotLeft>>

\* resetStats()
ResetStats ==
  /\ stats' = [messagesReceived |-> 0, messagesSent |-> 0, messagesDelayed |-> 0]
  /\ messageLatencies' = <<>>
  /\ emitted' = <<>>
  /\ lastEvent' = [NoEvent EXCEPT !.op = "reset-stats"]
  /\ UNCHANGED <<sockets, ioRooms, rooms, users, socketToUser, userToSocket,
                 messageQueue, messageQueueTimers, flushTimeouts, joinedNotLeft>>

GetRoomUsers(roomId) ==
  IF MapHas(rooms, roomId) THEN rooms[roomId].users ELSE <<>>

(***************************************************************************)
(* RTCPeerConnectionPool.  A handle is the identity of one constructed     *)
(* RTCPeerConnection object.                                               *)
(***************************************************************************)
Handles == 1..MaxHandles
NoConnection == 0

\* The list of ICE servers the client falls back to; a list is modelled by
\* its JSON text.
DefaultIceServers == "[{\"urls\":\"stun:stun.l.google.com:19302\"}]"
IceServerLists == {DefaultIceServers}
IceTransportPolicies == {Undefined, "relay"}

\* The RTCConfiguration objects a caller passes to acquire.
PoolConfigs ==
  [iceTransportPolicy : IceTransportPolicies, bundlePolicy : {Undefined},
   iceServers : IceServerLists, iceCandidatePoolSize : {0, 1}]

NoConfig == [iceTransportPolicy |-> Undefined, bundlePolicy |-> Undefined,
             iceServers |-> Undefined, iceCandidatePoolSize |-> 0]

\* The configCache holds at most this many entries.
ConfigCacheLimit == 10

\* x || ""
OrEmpty(x) == IF x = Undefined THEN "" ELSE x

\* `${iceTransportPolicy || ""}-${bundlePolicy || ""}-${JSON of iceServers}`
GetConfigKey(config) ==
  <<OrEmpty(config.iceTransportPolicy), OrEmpty(config.bundlePolicy),
    IF config.iceServers # Undefined THEN config.iceServers ELSE "">>

\* { ...config, iceServers: config.iceServers?.map(...) }
DeepCloneConfig(config) ==
  [config EXCEPT !.iceServers = IF config.iceServers # Undefined
                                THEN config.iceServers ELSE Undefined]

\* The position of key in the cache, 0 when the cache misses.
CacheIndex(key) ==
  IF \E i \in DOMAIN configCache : configCache[i].key = key
  THEN CHOOSE i \in DOMAIN configCache : configCache[i].key = key
  ELSE 0

\* A cache in which a hit makes its entry the newest one.
CacheRefreshedByHits(config) ==
  LET key == GetConfigKey(config)
      idx == CacheIndex(key)
      stored == Append(configCache,
                       [key |-> key, config |-> DeepCloneConfig(config)])
  IN IF idx # 0
     THEN Append(SubSeq(configCache, 1, idx - 1)
                   \o SubSeq(configCache, idx + 1, Len(configCache)),
                 configCache[idx])
     ELSE IF Len(stored) > ConfigCacheLimit THEN Tail(stored) ELSE stored

\* The cache after acquire(config): a miss stores a clone, and drops the
\* oldest entry when the cache outgrows its limit.
CacheAfterAcquire(config) ==
  LET key == GetConfigKey(config)
      stored == Append(configCache,
                       [key |-> key, config |-> DeepCloneConfig(config)])
  IN IF CacheIndex(key) # 0 THEN configCache
     ELSE IF Len(stored) > ConfigCacheLimit THEN Tail(stored) ELSE stored

\* The configuration acquire(config) constructs the connection with.
CachedConfig(config) ==
  LET idx == CacheIndex(GetConfigKey(config))
  IN IF idx # 0 THEN configCache[idx].config ELSE DeepCloneConfig(config)

PoolOp(op, pc, threw, config) ==
  [op |-> op, pc |-> pc, threw |-> threw, config |-> config]

PoolInit ==
  /\ activeConnections = {}
  /\ pendingClose = {}
  /\ closedConnections = {}
  /\ poolStats = [created |-> 0, released |-> 0, active |-> 0]
  /\ configCache = <<>>
  /\ nextHandle = 1
  /\ lastPoolOp = PoolOp("none", NoConnection, FALSE, NoConfig)

\* What acquire(config) leaves behind; available: globalThis.RTCPeerConnection
\* is defined.  Without it acquire throws, after it has updated the cache.
AcquireResult(config, available) ==
  IF ~available
  THEN [activeConnections |-> activeConnections, poolStats |-> poolStats,
        configCache |-> CacheAfterAcquire(config), nextHandle |-> nextHandle,
        pc |-> NoConnection, threw |-> TRUE,
        lastPoolOp |-> PoolOp("acquire", NoConnection, TRUE, NoConfig)]
  ELSE LET pc == nextHandle
           active == activeConnections \cup {pc}
       IN [activeConnections |-> active,
           poolStats |-> [poolStats EXCEPT !.created = @ + 1,
                                           !.active = Cardinality(active)],
           configCache |-> CacheAfterAcquire(config),
           nextHandle |-> nextHandle + 1,
           pc |-> pc, threw |-> FALSE,
           lastPoolOp |-> PoolOp("acquire", pc, FALSE, CachedConfig(config))]

\* acquire can construct a connection only while the run has handles left.
CanAcquire(available) == available => nextHandle <= MaxHandles

Acquire(config, available) ==
  LET r == AcquireResult(config, available)
  IN /\ CanAcquire(available)
     /\ activeConnections' = r.activeConnections
     /\ poolStats' = r.poolStats
     /\ configCache' = r.configCache
     /\ nextHandle' = r.nextHandle
     /\ lastPoolOp' = r.lastPoolOp
     /\ UNCHANGED <<pendingClose, closedConnections>>

\* What release(pc) leaves behind: nothing changes for a handle that is not
\* active; an active one leaves the active set and gets a close timer.
ReleaseResult(pc) ==
  IF pc \notin activeConnections
  THEN [activeConnections |-> activeConnections, poolStats |-> poolStats,
        pendingClose |-> pendingClose]
  ELSE LET active == activeConnections \ {pc}
       IN [activeConnections |-> active,
           poolStats |-> [poolStats EXCEPT !.released = @ + 1,
                                           !.active = Cardinality(active)],
           pendingClose |-> pendingClose \cup {pc}]

\* A release that closes the connection at once instead of scheduling it.
ReleaseClosesAtOnce(pc) ==
  LET r == ReleaseResult(pc)
  IN /\ pc < nextHandle
     /\ activeConnections' = r.activeConnections
     /\ poolStats' = r.poolStats
     /\ closedConnections' = closedConnections \cup
                               (activeConnections \ r.activeConnections)
     /\ lastPoolOp' = PoolOp("release", pc, FALSE, NoConfig)
     /\ UNCHANGED <<pendingClose, configCache, nextHandle>>

Release(pc) ==
  LET r == ReleaseResult(pc)
  IN /\ pc < nextHandle
     /\ activeConnections' = r.activeConnections
     /\ poolStats' = r.poolStats
     /\ pendingClose' = r.pendingClose
     /\ lastPoolOp' = PoolOp("release", pc, FALSE, NoConfig)
     /\ UNCHANGED <<closedConnections, configCache, nextHandle>>

\* The close timer of a released handle fires.
CloseTimerFires(pc) ==
  /\ pc \in pendingClose
  /\ closedConnections' = closedConnections \cup {pc}
  /\ pendingClose' = pendingClose \ {pc}
  /\ lastPoolOp' = PoolOp("timer", pc, FALSE, NoConfig)
  /\ UNCHANGED <<activeConnections, poolStats, configCache, nextHandle>>

ReleaseImmediate(pc) ==
  LET active == activeConnections \ {pc}
  IN /\ pc < nextHandle
     /\ poolStats.released < MaxReleased
     /\ pendingClose' = pendingClose \ {pc}
     /\ closedConnections' = closedConnections \cup {pc}
     /\ activeConnections' = active
     /\ poolStats' = [poolStats EXCEPT !.released = @ + 1,
                                       !.active = Cardinality(active)]
     /\ lastPoolOp' = PoolOp("releaseImmediate", pc, FALSE, NoConfig)
     /\ UNCHANGED <<configCache, nextHandle>>

\* What clear() leaves behind.
ClearResult ==
  [closedConnections |->
     closedConnections \cup pendingClose \cup activeConnections,
   pendingClose |-> {}, activeConnections |-> {}, configCache |-> <<>>,
   poolStats |-> [created |-> 0, released |-> 0, active |-> 0]]

Clear ==
  LET r == ClearResult
  IN /\ closedConnections' = r.closedConnections
     /\ pendingClose' = r.pendingClose
     /\ activeConnections' = r.activeConnections
     /\ configCache' = r.configCache
     /\ poolStats' = r.poolStats
     /\ lastPoolOp' = PoolOp("clear", NoConnection, FALSE, NoConfig)
     /\ UNCHANGED nextHandle

\* getStats()
GetPoolStats ==
  [created |-> poolStats.created, released |-> poolStats.released,
   active |-> poolStats.active, pendingClose |-> Cardinality(pendingClose),
   configCacheSize |-> Len(configCache)]

(***************************************************************************)
(* RTCClient: the architecture mode (mesh / sfu / auto) state machine.     *)
(* Signaling events reach the handlers while the socket is connected; the  *)
(* media streams and the offers of the peer connection play no part in the *)
(* mode and are left out.                                                  *)
(***************************************************************************)
DefaultMeshToSFUThreshold == 10

\* The options a caller constructs the client with; a threshold of 0 and an
\* architectureMode of Undefined stand for an option the caller leaves out.
ClientOptions ==
  [architectureMode : ArchitectureModes \cup {Undefined},
   meshToSFUThreshold : 0..MaxThreshold,
   sfuOptions : BOOLEAN]

\* this.options after the constructor filled in the defaults.
ConstructOptions(o) ==
  [architectureMode |-> IF o.architectureMode = Undefined THEN "auto"
                        ELSE o.architectureMode,
   meshToSFUThreshold |-> IF o.meshToSFUThreshold = 0
                          THEN DefaultMeshToSFUThreshold
                          ELSE o.meshToSFUThreshold,
   sfuOptions |-> o.sfuOptions]

DefaultOptions ==
  [architectureMode |-> Undefined, meshToSFUThreshold |-> 0,
   sfuOptions |-> FALSE]

\* The constructor creates the adapter for sfu and auto, given sfuOptions.
HasSfuAdapter ==
  options.architectureMode \in {"sfu", "auto"} /\ options.sfuOptions

\* The configuration initializePeerConnection acquires a connection with:
\* the default STUN list, no rtcConfiguration option.
ClientRtcConfig ==
  [iceTransportPolicy |-> Undefined, bundlePolicy |-> Undefined,
   iceServers |-> DefaultIceServers, iceCandidatePoolSize |-> 0]

ClientEmit(event, type, mode) ==
  [event |-> event, type |-> type, architectureMode |-> mode]

ClientEvent(op, mode) == [op |-> op, mode |-> mode]

ClientInit(o) ==
  /\ options = ConstructOptions(o)
  /\ currentArchitectureMode =
       IF ConstructOptions(o).architectureMode = "auto" THEN "mesh"
       ELSE ConstructOptions(o).architectureMode
  /\ roomUserCount = 0
  /\ clientRoomId = Undefined
  /\ peerConnection = NoConnection
  /\ sfuConnected = FALSE
  /\ clientEmitted = <<>>
  /\ lastClientEvent = ClientEvent("none", Undefined)
  /\ clientEventCount = 0

\* The part of the state switchArchitecture writes, left as it is.
NoSwitch ==
  [currentArchitectureMode |-> currentArchitectureMode,
   peerConnection |-> peerConnection, sfuConnected |-> sfuConnected,
   emitted |-> <<>>, acquires |-> FALSE,
   closedConnections |-> closedConnections,
   activeConnections |-> activeConnections, poolStats |-> poolStats,
   configCache |-> configCache, nextHandle |-> nextHandle,
   lastPoolOp |-> lastPoolOp]

\* switchArchitecture(mode), up to its first await, with this.roomId = roomIdNow.
\* A mesh connection is closed directly, not released to the pool.
SwitchArchitecture(mode, roomIdNow, available) ==
  IF mode = currentArchitectureMode THEN NoSwitch
  ELSE LET fromMesh == currentArchitectureMode = "mesh"
           fromSfu == currentArchitectureMode = "sfu" /\ HasSfuAdapter
           closed == IF fromMesh /\ peerConnection # NoConnection
                     THEN closedConnections \cup {peerConnection}
                     ELSE closedConnections
           pc == IF fromMesh THEN NoConnection ELSE peerConnection
           sfu == IF fromSfu THEN FALSE ELSE sfuConnected
           left == IF fromSfu /\ sfuConnected
                   THEN <<ClientEmit("signaling", "sfu-disconnect", Undefined)>>
                   ELSE <<>>
           notice == <<ClientEmit("signaling", "architecture-mode", mode)>>
           toSfu == mode = "sfu" /\ HasSfuAdapter /\ roomIdNow # Undefined
           toMesh == ~toSfu /\ mode = "mesh" /\ roomIdNow # Undefined
           connects == toSfu /\ ~sfu /\ available
           acq == AcquireResult(ClientRtcConfig, available)
       IN [currentArchitectureMode |-> mode,
           peerConnection |-> IF toMesh /\ ~acq.threw THEN acq.pc ELSE pc,
           sfuConnected |-> IF connects THEN TRUE ELSE sfu,
           emitted |-> left \o notice \o
                       (IF connects
                        THEN <<ClientEmit("signaling", "sfu-connect", Undefined)>>
                        ELSE <<>>),
           acquires |-> toMesh,
           closedConnections |-> closed,
           activeConnections |-> IF toMesh THEN acq.activeConnections
                                 ELSE activeConnections,
           poolStats |-> IF toMesh THEN acq.poolStats ELSE poolStats,
           configCache |-> IF toMesh THEN acq.configCache ELSE configCache,
           nextHandle |-> IF toMesh THEN acq.nextHandle ELSE nextHandle,
           lastPoolOp |-> IF toMesh THEN acq.lastPoolOp ELSE lastPoolOp]

\* A switchArchitecture that notifies the room before it closes anything.
SwitchOrderNoticeFirst(mode, roomIdNow, available, hasStream) ==
  IF mode = currentArchitectureMode THEN <<>>
  ELSE LET fromMesh == currentArchitectureMode = "mesh"
           fromSfu == currentArchitectureMode = "sfu" /\ HasSfuAdapter
           sfu == IF fromSfu THEN FALSE ELSE sfuConnected
           toSfu == mode = "sfu" /\ HasSfuAdapter /\ roomIdNow # Undefined
           toMesh == ~toSfu /\ mode = "mesh" /\ roomIdNow # Undefined
       IN <<"architecture-mode">>
          \o (IF fromMesh /\ peerConnection # NoConnection
              THEN <<"close-mesh">> ELSE <<>>)
          \o (IF fromSfu /\ sfuConnected THEN <<"sfu-disconnect">> ELSE <<>>)
          \o (IF toSfu /\ ~sfu /\ available THEN <<"sfu-connect">> ELSE <<>>)
          \o (IF toSfu /\ (sfu \/ available) /\ hasStream
              THEN <<"sfu-publish">> ELSE <<>>)
          \o (IF toMesh THEN <<"initialize-mesh">> ELSE <<>>)

\* switchArchitecture(mode): what it does, in the order of its statements.
\* close-mesh: the mesh connection is closed; sfu-disconnect, sfu-connect
\* and sfu-publish: what the adapter's disconnect(), connect() and publish()
\* send; architecture-mode: the notice to the room; initialize-mesh:
\* initializePeerConnection().  hasStream: this.localStream is set.
SwitchOrder(mode, roomIdNow, available, hasStream) ==
  IF mode = currentArchitectureMode THEN <<>>
  ELSE LET fromMesh == currentArchitectureMode = "mesh"
           fromSfu == currentArchitectureMode = "sfu" /\ HasSfuAdapter
           sfu == IF fromSfu THEN FALSE ELSE sfuConnected
           toSfu == mode = "sfu" /\ HasSfuAdapter /\ roomIdNow # Undefined
           toMesh == ~toSfu /\ mode = "mesh" /\ roomIdNow # Undefined
       IN (IF fromMesh /\ peerConnection # NoConnection
           THEN <<"close-mesh">> ELSE <<>>)
          \o (IF fromSfu /\ sfuConnected THEN <<"sfu-disconnect">> ELSE <<>>)
          \o <<"architecture-mode">>
          \o (IF toSfu /\ ~sfu /\ available THEN <<"sfu-connect">> ELSE <<>>)
          \o (IF toSfu /\ (sfu \/ available) /\ hasStream
              THEN <<"sfu-publish">> ELSE <<>>)
          \o (IF toMesh THEN <<"initialize-mesh">> ELSE <<>>)

\* const threshold = this.options.meshToSFUThreshold || 10
Threshold ==
  IF options.meshToSFUThreshold = 0 THEN DefaultMeshToSFUThreshold
  ELSE options.meshToSFUThreshold

\* A threshold test that promotes one member late.
ShouldUseSFUAbove(count) == count > Threshold

\* const shouldUseSFU = this.roomUserCount >= threshold
ShouldUseSFU(count) == count >= Threshold

\* A threshold test that does not look at the configured mode.
CheckAndSwitchWhateverTheMode(count, roomIdNow, available) ==
  IF ShouldUseSFU(count) /\ currentArchitectureMode = "mesh"
  THEN SwitchArchitecture("sfu", roomIdNow, available)
  ELSE IF ~ShouldUseSFU(count) /\ currentArchitectureMode = "sfu"
  THEN SwitchArchitecture("mesh", roomIdNow, available)
  ELSE NoSwitch

\* checkAndSwitchArchitecture() with this.roomUserCount = count.
CheckAndSwitchArchitecture(count, roomIdNow, available) ==
  IF options.architectureMode # "auto" THEN NoSwitch
  ELSE IF ShouldUseSFU(count) /\ currentArchitectureMode = "mesh"
  THEN SwitchArchitecture("sfu", roomIdNow, available)
  ELSE IF ~ShouldUseSFU(count) /\ currentArchitectureMode = "sfu"
  THEN SwitchArchitecture("mesh", roomIdNow, available)
  ELSE NoSwitch

\* The state after a handler that ends in the switch result r.
ApplySwitch(r, available) ==
  /\ (r.acquires /\ available) => nextHandle <= MaxHandles
  /\ currentArchitectureMode' = r.currentArchitectureMode
  /\ peerConnection' = r.peerConnection
  /\ sfuConnected' = r.sfuConnected
  /\ clientEmitted' = r.emitted
  /\ closedConnections' = r.closedConnections
  /\ activeConnections' = r.activeConnections
  /\ poolStats' = r.poolStats
  /\ configCache' = r.configCache
  /\ nextHandle' = r.nextHandle
  /\ lastPoolOp' = r.lastPoolOp
  /\ UNCHANGED <<pendingClose, options>>

\* socket.on("room-joined"): count others of the room are listed.
RoomJoined(roomId, count, available) ==
  /\ clientRoomId' = roomId
  /\ roomUserCount' = count + 1
  /\ lastClientEvent' = ClientEvent("room-joined", Undefined)
  /\ ApplySwitch(CheckAndSwitchArchitecture(count + 1, roomId, available),
                 available)

\* socket.on("user-joined"), both registered handlers.
UserJoined(available) ==
  /\ roomUserCount < MaxUserCount
  /\ roomUserCount' = roomUserCount + 1
  /\ lastClientEvent' = ClientEvent("user-joined", Undefined)
  /\ ApplySwitch(CheckAndSwitchArchitecture(roomUserCount + 1, clientRoomId,
                                            available), available)
  /\ UNCHANGED clientRoomId

\* socket.on("user-left"), both registered handlers.
UserLeft(available) ==
  LET count == IF roomUserCount - 1 > 0 THEN roomUserCount - 1 ELSE 0
  IN /\ roomUserCount' = count
     /\ lastClientEvent' = ClientEvent("user-left", Undefined)
     /\ ApplySwitch(CheckAndSwitchArchitecture(count, clientRoomId, available),
                    available)
     /\ UNCHANGED clientRoomId

\* A handler of "architecture-mode" that a configured mesh or sfu overrides.
NoticeHonouredOnlyInAuto(mode, available) ==
  /\ lastClientEvent' = ClientEvent("architecture-mode", mode)
  /\ ApplySwitch(IF mode # currentArchitectureMode
                    /\ options.architectureMode = "auto"
                 THEN SwitchArchitecture(mode, clientRoomId, available)
                 ELSE NoSwitch, available)
  /\ UNCHANGED <<roomUserCount, clientRoomId>>

\* socket.on("architecture-mode"): another client of the room switched.
ArchitectureModeNotice(mode, available) ==
  /\ lastClientEvent' = ClientEvent("architecture-mode", mode)
  /\ ApplySwitch(IF mode # currentArchitectureMode
                 THEN SwitchArchitecture(mode, clientRoomId, available)
                 ELSE NoSwitch, available)
  /\ UNCHANGED <<roomUserCount, clientRoomId>>

\* joinRoom(roomId): the request, then initializePeerConnection().
ClientJoinRoom(roomId, available) ==
  LET acq == AcquireResult(ClientRtcConfig, available)
  IN /\ CanAcquire(available)
     /\ clientRoomId' = roomId
     /\ clientEmitted' = <<ClientEmit("join-room", Undefined, Undefined)>>
     /\ peerConnection' = IF acq.threw THEN peerConnection ELSE acq.pc
     /\ activeConnections' = acq.activeConnections
     /\ poolStats' = acq.poolStats
     /\ configCache' = acq.configCache
     /\ nextHandle' = acq.nextHandle
     /\ lastPoolOp' = acq.lastPoolOp
     /\ lastClientEvent' = ClientEvent("joinRoom", Undefined)
     /\ UNCHANGED <<options, currentArchitectureMode, roomUserCount,
                    sfuConnected, pendingClose, closedConnections>>

\* leaveRoom(): the member count is reset; the mode is not looked at again.
ClientLeaveRoom ==
  LET inSfu == currentArchitectureMode = "sfu" /\ HasSfuAdapter
      rel == ReleaseResult(peerConnection)
  IN /\ clientEmitted' =
          (IF clientRoomId # Undefined
           THEN <<ClientEmit("leave-room", Undefined, Undefined)>> ELSE <<>>)
          \o (IF inSfu /\ sfuConnected
              THEN <<ClientEmit("signaling", "sfu-disconnect", Undefined)>>
              ELSE <<>>)
     /\ clientRoomId' = Undefined
     /\ sfuConnected' = IF inSfu THEN FALSE ELSE sfuConnected
     /\ roomUserCount' = 0
     /\ peerConnection' = NoConnection
     /\ activeConnections' = rel.activeConnections
     /\ poolStats' = rel.poolStats
     /\ pendingClose' = rel.pendingClose
     /\ lastPoolOp' = IF peerConnection # NoConnection
                      THEN PoolOp("release", peerConnection, FALSE, NoConfig)
                      ELSE lastPoolOp
     /\ lastClientEvent' = ClientEvent("leaveRoom", Undefined)
     /\ UNCHANGED <<options, currentArchitectureMode, closedConnections,
                    configCache, nextHandle>>

\* disconnect(): release the connection, leave the room, clear the pool.
ClientDisconnect ==
  LET rel == ReleaseResult(peerConnection)
  IN /\ clientEmitted' =
          IF clientRoomId # Undefined
          THEN <<ClientEmit("leave-room", Undefined, Undefined)>> ELSE <<>>
     /\ clientRoomId' = Undefined
     /\ peerConnection' = NoConnection
     /\ closedConnections' = closedConnections \cup rel.pendingClose
                               \cup rel.activeConnections
     /\ pendingClose' = {}
     /\ activeConnections' = {}
     /\ configCache' = <<>>
     /\ poolStats' = [created |-> 0, released |-> 0, active |-> 0]
     /\ lastPoolOp' = PoolOp("clear", NoConnection, FALSE, NoConfig)
     /\ lastClientEvent' = ClientEvent("disconnect", Undefined)
     /\ UNCHANGED <<options, currentArchitectureMode, roomUserCount,
                    sfuConnected, nextHandle>>

(***************************************************************************)
(* The clients of one room.  Each client has its own socket: the server    *)
(* handles a socket's requests in the order sent, and a client handles the *)
(* server's events in the order emitted.  Of a client, the fields that     *)
(* decide its architecture mode are kept here; its peer connections and    *)
(* its SFU adapter are those of the single client above.                   *)
(***************************************************************************)
PeerIds == {SocketNames[i] : i \in 1..MaxPeers}

PeerRoom == RoomNames[1]

\* The options the clients of the room are constructed with.
PeerClientOptions ==
  [architectureMode : ArchitectureModes,
   meshToSFUThreshold : {MaxPeers},
   sfuOptions : {TRUE}]

\* The server state but the count of handled events.
serverStateVars == <<sockets, ioRooms, rooms, users, socketToUser,
                     userToSocket, stats, messageLatencies, messageQueue,
                     messageQueueTimers, flushTimeouts, emitted, lastEvent, joinedNotLeft>>

\* The constructor of each client, given with[p] as its options.
PeerInit(with) ==
  /\ peerOptions = [p \in PeerIds |-> ConstructOptions(with[p])]
  /\ peerMode = [p \in PeerIds |->
                   IF ConstructOptions(with[p]).architectureMode = "auto"
                   THEN "mesh"
                   ELSE ConstructOptions(with[p]).architectureMode]
  /\ peerCount = [p \in PeerIds |-> 0]
  /\ peerRoomId = [p \in PeerIds |-> Undefined]
  /\ inbox = [p \in PeerIds |-> <<>>]
  /\ outbox = [p \in PeerIds |-> <<>>]

\* socket.emit(kind, ...) of a client, on its way to the server.
Request(kind, mode) == [kind |-> kind, architectureMode |-> mode]

\* The events a client's topology handlers are registered for.
PeerEvents == {"room-joined", "user-joined", "user-left", "architecture-mode"}

\* What a client reads of an event: its name, the mode it carries, and the
\* length of the users list it carries.
Received(e) ==
  [event |-> e.event, architectureMode |-> e.payload.architectureMode,
   users |-> Len(e.payload.users)]

RECURSIVE EventsFor(_, _)
EventsFor(p, emits) ==
  IF emits = <<>> THEN <<>>
  ELSE (IF p \in Head(emits).targets /\ Head(emits).event \in PeerEvents
        THEN <<Received(Head(emits))>> ELSE <<>>)
       \o EventsFor(p, Tail(emits))

\* The server's emit calls reach the sockets they name, in order.
Deliver(boxes, emits) ==
  [p \in PeerIds |-> boxes[p] \o EventsFor(p, emits)]

\* switchArchitecture(mode) of client p: the new mode and the notification.
PeerSwitchArchitecture(p, mode) ==
  IF mode = peerMode[p]
  THEN [mode |-> peerMode[p], sent |-> <<>>]
  ELSE [mode |-> mode, sent |-> <<Request("signaling", mode)>>]

\* checkAndSwitchArchitecture() of client p with this.roomUserCount = count.
PeerCheckAndSwitchArchitecture(p, count) ==
  LET threshold == IF peerOptions[p].meshToSFUThreshold = 0
                   THEN DefaultMeshToSFUThreshold
                   ELSE peerOptions[p].meshToSFUThreshold
      shouldUseSFU == count >= threshold
  IN IF peerOptions[p].architectureMode # "auto"
     THEN PeerSwitchArchitecture(p, peerMode[p])
     ELSE IF shouldUseSFU /\ peerMode[p] = "mesh"
     THEN PeerSwitchArchitecture(p, "sfu")
     ELSE IF ~shouldUseSFU /\ peerMode[p] = "sfu"
     THEN PeerSwitchArchitecture(p, "mesh")
     ELSE PeerSwitchArchitecture(p, peerMode[p])

\* The socket of client p connects.
PeerConnect(p) ==
  /\ Connection(p)
  /\ inbox' = Deliver(inbox, emitted')
  /\ UNCHANGED <<peerOptions, peerMode, peerCount, peerRoomId, outbox>>

\* joinRoom(PeerRoom) of client p.
PeerJoinRoom(p) ==
  /\ sockets[p] = "open"
  /\ peerRoomId[p] = Undefined
  /\ peerRoomId' = [peerRoomId EXCEPT ![p] = PeerRoom]
  /\ outbox' = [outbox EXCEPT ![p] = Append(@, Request("join-room", Undefined))]
  /\ UNCHANGED <<peerOptions, peerMode, peerCount, inbox>>
  /\ UNCHANGED serverStateVars

\* joinRoom(PeerRoom) of client p once more, without a leaveRoom() between:
\* joinRoom() looks at nothing before it sends the request.
PeerJoinsAgain(p) ==
  /\ sockets[p] = "open"
  /\ peerRoomId[p] = PeerRoom
  /\ outbox' = [outbox EXCEPT ![p] = Append(@, Request("join-room", Undefined))]
  /\ UNCHANGED <<peerOptions, peerMode, peerCount, peerRoomId, inbox>>
  /\ UNCHANGED serverStateVars

\* leaveRoom() of client p.
PeerLeaveRoom(p) ==
  /\ sockets[p] = "open"
  /\ peerRoomId[p] # Undefined
  /\ outbox' = [outbox EXCEPT ![p] = Append(@, Request("leave-room", Undefined))]
  /\ peerRoomId' = [peerRoomId EXCEPT ![p] = Undefined]
  /\ peerCount' = [peerCount EXCEPT ![p] = 0]
  /\ UNCHANGED <<peerOptions, peerMode, inbox>>
  /\ UNCHANGED serverStateVars

\* The server handles the oldest request of client p; what it emits is on
\* its way to the clients.
Handled(p) ==
  /\ inbox' = Deliver(inbox, emitted')
  /\ outbox' = [outbox EXCEPT ![p] = Tail(@)]
  /\ UNCHANGED <<peerOptions, peerMode, peerCount, peerRoomId>>

ServerHandlesJoin(p) ==
  /\ outbox[p] # <<>>
  /\ Head(outbox[p]).kind = "join-room"
  /\ HandleJoinRoom(p, PeerRoom, Undefined)
  /\ Handled(p)

ServerHandlesLeave(p) ==
  /\ outbox[p] # <<>>
  /\ Head(outbox[p]).kind = "leave-room"
  /\ HandleLeaveRoom(p)
  /\ Handled(p)

ServerHandlesNotice(p) ==
  /\ outbox[p] # <<>>
  /\ Head(outbox[p]).kind = "signaling"
  /\ \E claimed \in ClaimedFields :
       HandleSignaling(p, "architecture-mode", Undefined,
                       Head(outbox[p]).architectureMode, 0, claimed)
  /\ Handled(p)

\* Client p handles the oldest event on its socket: the handlers of
\* room-joined, user-joined, user-left and architecture-mode.
PeerReceives(p) ==
  /\ inbox[p] # <<>>
  /\ LET e == Head(inbox[p])
         count == CASE e.event = "room-joined" -> e.users + 1
                    [] e.event = "user-joined" -> peerCount[p] + 1
                    [] e.event = "user-left" ->
                         IF peerCount[p] - 1 > 0 THEN peerCount[p] - 1 ELSE 0
                    [] OTHER -> peerCount[p]
         r == IF e.event = "architecture-mode"
              THEN PeerSwitchArchitecture(p, e.architectureMode)
              ELSE PeerCheckAndSwitchArchitecture(p, count)
     IN /\ peerCount' = [peerCount EXCEPT ![p] = count]
        /\ peerMode' = [peerMode EXCEPT ![p] = r.mode]
        /\ outbox' = [outbox EXCEPT ![p] = @ \o r.sent]
  /\ inbox' = [inbox EXCEPT ![p] = Tail(@)]
  /\ UNCHANGED <<peerOptions, peerRoomId>>
  /\ UNCHANGED serverStateVars

(***************************************************************************)
(* RTCClient: the quality adapter.  A sample is what checkNetworkQuality   *)
(* leaves in this.networkStats; lastUpdate counts the samples taken, in    *)
(* place of their timestamps.                                              *)
(***************************************************************************)
Bandwidths == {0, 499999, 500000, 1999999, 2000000, 3000000}
PacketLosses == {0, 1, 2, 3, 5, 6}
RoundTripTimes == {0, 150, 151, 300, 301, 400}

QualityInit ==
  /\ networkStats = [bandwidth |-> 0, packetLoss |-> 0, rtt |-> 0,
                     lastUpdate |-> 0]
  /\ currentQuality = "high"
  /\ localStream = FALSE
  /\ lastQualityOp = "none"

\* targetQuality of adjustMediaQuality(): bandwidth, then loss, then rtt.
TargetQuality(sample) ==
  LET byBandwidth == IF sample.bandwidth < 500000 THEN "low"
                     ELSE IF sample.bandwidth < 2000000 THEN "medium"
                     ELSE "high"
      byLoss == IF sample.packetLoss > 5 THEN "low"
                ELSE IF sample.packetLoss > 2
                THEN (IF byBandwidth = "high" THEN "medium" ELSE "low")
                ELSE byBandwidth
  IN IF sample.rtt > 300 THEN "low"
     ELSE IF sample.rtt > 150
     THEN (IF byLoss = "high" THEN "medium" ELSE "low")
     ELSE byLoss

\* adjustMediaQuality(): this.currentQuality afterwards.
AdjustMediaQuality(sample) ==
  IF ~localStream THEN currentQuality ELSE TargetQuality(sample)

\* One tick of the monitor, checkNetworkQuality(): hasPc says whether a peer
\* connection exists, threw whether getStats() rejected; bandwidth, packetLoss
\* and rtt are what the report gives.  The bandwidth is only computed from
\* the second sample on.
CheckNetworkQuality(hasPc, threw, bandwidth, packetLoss, rtt) ==
  IF ~hasPc \/ threw
  THEN /\ lastQualityOp' = "no-sample"
       /\ UNCHANGED <<networkStats, currentQuality, localStream>>
  ELSE LET sample == [bandwidth |-> IF networkStats.lastUpdate > 0
                                   THEN bandwidth ELSE networkStats.bandwidth,
                     packetLoss |-> packetLoss, rtt |-> rtt,
                     lastUpdate |-> networkStats.lastUpdate + 1]
       IN /\ networkStats.lastUpdate < MaxSamples
          /\ networkStats' = sample
          /\ currentQuality' = AdjustMediaQuality(sample)
          /\ lastQualityOp' = "sample"
          /\ UNCHANGED localStream

\* getUserMedia() resolves, or leaveRoom() stops the local stream.
SetLocalStream(stream) ==
  /\ localStream' = stream
  /\ lastQualityOp' = "stream"
  /\ UNCHANGED <<networkStats, currentQuality>>

\* getNetworkStats()
GetNetworkStats ==
  [bandwidth |-> networkStats.bandwidth, packetLoss |-> networkStats.packetLoss,
   rtt |-> networkStats.rtt, lastUpdate |-> networkStats.lastUpdate,
   quality |-> currentQuality]

(***************************************************************************)
(* RTCClient: the signaling messages it receives.  A message is its type,  *)
(* its sender, the first 50 characters of its SDP or candidate, and what   *)
(* follows them.                                                           *)
(***************************************************************************)
SignalingMessages ==
  [type : {"offer", "ice-candidate"}, from : {UserNames[1]},
   prefix : {"p"}, rest : {"", "x"}]

NoMessage == [type |-> Undefined, from |-> Undefined, prefix |-> Undefined,
              rest |-> Undefined]

\* The Set is cleared once it holds more ids than this.
ProcessedIdsLimit == 1000

DedupInit ==
  /\ processedSignalingIds = {}
  /\ otherIds = 0
  /\ applied = [m \in SignalingMessages |-> 0]
  /\ lastSignaling = NoMessage

\* getMessageId(message): what follows the first 50 characters is not in it.
GetMessageId(message) == <<message.type, message.from, message.prefix>>

\* The message goes to sfuAdapter.handleSignaling and to nothing else.
RoutedToSfuAdapter(message) ==
  /\ currentArchitectureMode = "sfu"
  /\ HasSfuAdapter
  /\ message.type \in {"answer", "ice-candidate"}

\* processedSignalingIds.size
ProcessedIdsSize == Cardinality(processedSignalingIds) + otherIds

\* socket.on("signaling") with one of SignalingMessages: handleSignaling.
HandleSignalingMessage(message) ==
  LET seen == GetMessageId(message) \in processedSignalingIds
      cleared == ProcessedIdsSize + 1 > ProcessedIdsLimit
      gets == IF RoutedToSfuAdapter(message) THEN sfuConnected
              ELSE ~seen /\ peerConnection # NoConnection
  IN /\ applied[message] < MaxApplied
     /\ applied' = [applied EXCEPT ![message] = IF gets THEN @ + 1 ELSE @]
     /\ processedSignalingIds' =
          IF RoutedToSfuAdapter(message) \/ seen THEN processedSignalingIds
          ELSE IF cleared THEN {}
          ELSE processedSignalingIds \cup {GetMessageId(message)}
     /\ otherIds' = IF RoutedToSfuAdapter(message) \/ seen \/ ~cleared
                    THEN otherIds ELSE 0
     /\ lastSignaling' = message
     /\ clientEmitted' = IF gets /\ message.type = "offer"
                         THEN <<ClientEmit("signaling", "answer", Undefined)>>
                         ELSE <<>>
     /\ lastClientEvent' = ClientEvent("signaling", Undefined)
     /\ UNCHANGED <<options, currentArchitectureMode, roomUserCount,
                    clientRoomId, peerConnection, sfuConnected>>
     /\ UNCHANGED poolVars

\* handleSignaling for count messages in a row that are no SignalingMessages,
\* none with an id seen before and none routed to the SFU adapter.
HandleOtherMessages(count) ==
  LET size == ProcessedIdsSize + count
  IN /\ processedSignalingIds' = IF size > ProcessedIdsLimit THEN {}
                                 ELSE processedSignalingIds
     /\ otherIds' = IF size > ProcessedIdsLimit
                    THEN size - (ProcessedIdsLimit + 1)
                    ELSE otherIds + count
     /\ lastSignaling' = NoMessage
     /\ clientEmitted' = <<>>
     /\ lastClientEvent' = ClientEvent("signaling", Undefined)
     /\ UNCHANGED applied
     /\ UNCHANGED <<options, currentArchitectureMode, roomUserCount,
                    clientRoomId, peerConnection, sfuConnected>>
     /\ UNCHANGED poolVars

\* cleanup(), which leaveRoom() and disconnect() end with.
Cleanup ==
  /\ processedSignalingIds' = {}
  /\ otherIds' = 0
  /\ lastSignaling' = NoMessage
  /\ UNCHANGED applied

(***************************************************************************)
(* RTCClient: its connection state, its signaling socket and the connect   *)
(* timeout.  The socket is opened by socket.connect() alone, runs the      *)
(* "disconnect" handler inside socket.disconnect() when it was open, and   *)
(* raises no event once it is closed.  The client here is constructed with *)
(* autoConnect false; with autoConnect its constructor ends in connect().  *)
(***************************************************************************)
ConnectionStates ==
  {"new", "connecting", "connected", "disconnected", "failed", "closed"}

ConnInit(rtc) ==
  /\ hasRTC = rtc
  /\ connectionState = "new"
  /\ socketState = "closed"
  /\ connectTimeoutId = FALSE
  /\ pcNegotiated = FALSE
  /\ lastConnOp = "none"
  /\ sinceDisconnect = 0

\* A connect() that does not look for RTCPeerConnection.
ConnectWhateverTheEnvironment ==
  /\ connectionState' = connectionState
  /\ socketState' = IF socketState = "closed" THEN "opening" ELSE socketState
  /\ connectTimeoutId' = TRUE
  /\ lastConnOp' = "connect"
  /\ sinceDisconnect' = 0
  /\ UNCHANGED <<hasRTC, pcNegotiated>>

\* connect()
Connect ==
  /\ connectionState' = IF hasRTC THEN connectionState ELSE "failed"
  /\ socketState' = IF hasRTC /\ socketState = "closed" THEN "opening"
                    ELSE socketState
  /\ connectTimeoutId' = IF hasRTC THEN TRUE ELSE connectTimeoutId
  /\ lastConnOp' = "connect"
  /\ sinceDisconnect' = 0
  /\ UNCHANGED <<hasRTC, pcNegotiated>>

\* socket.on("connect"): the socket is open.
SocketConnects ==
  /\ socketState = "opening"
  /\ socketState' = "open"
  /\ connectTimeoutId' = FALSE
  /\ connectionState' = "connected"
  /\ lastConnOp' = "socket-connect"
  /\ UNCHANGED <<hasRTC, pcNegotiated, sinceDisconnect>>

\* socket.on("disconnect"): the open socket is lost; it opens again by
\* itself when reconnects is set.
SocketDrops(reconnects) ==
  /\ socketState = "open"
  /\ socketState' = IF reconnects THEN "opening" ELSE "closed"
  /\ connectionState' = "disconnected"
  /\ lastConnOp' = "socket-disconnect"
  /\ UNCHANGED <<hasRTC, connectTimeoutId, pcNegotiated, sinceDisconnect>>

\* The callback of the connect timeout.
ConnectTimeout ==
  /\ connectTimeoutId
  /\ connectTimeoutId' = FALSE
  /\ socketState' = IF connectionState # "connected" THEN "closed"
                    ELSE socketState
  /\ connectionState' = IF connectionState # "connected" THEN "failed"
                        ELSE connectionState
  /\ lastConnOp' = "connect-timeout"
  /\ UNCHANGED <<hasRTC, pcNegotiated, sinceDisconnect>>

\* A disconnect() that leaves the connect timeout pending.
DisconnectKeepsTheTimeout ==
  /\ ClientDisconnect
  /\ connectTimeoutId' = connectTimeoutId
  /\ socketState' = "closed"
  /\ connectionState' = "closed"
  /\ pcNegotiated' = FALSE
  /\ lastConnOp' = "disconnect"
  /\ sinceDisconnect' = IF sinceDisconnect < MaxDisconnects
                      THEN sinceDisconnect + 1 ELSE sinceDisconnect
  /\ UNCHANGED hasRTC

\* disconnect()
Disconnect ==
  /\ ClientDisconnect
  /\ connectTimeoutId' = FALSE
  /\ socketState' = "closed"
  /\ connectionState' = "closed"
  /\ pcNegotiated' = FALSE
  /\ lastConnOp' = "disconnect"
  /\ sinceDisconnect' = IF sinceDisconnect < MaxDisconnects
                      THEN sinceDisconnect + 1 ELSE sinceDisconnect
  /\ UNCHANGED hasRTC

\* joinRoom(roomId): this.peerConnection is a new connection.
ConnJoinRoom(roomId) ==
  /\ ClientJoinRoom(roomId, hasRTC)
  /\ pcNegotiated' = FALSE
  /\ lastConnOp' = "joinRoom"
  /\ UNCHANGED <<hasRTC, connectionState, socketState, connectTimeoutId,
                 sinceDisconnect>>

\* An offer or an answer reaches the client over the open socket and is set
\* as the remote description of this.peerConnection.
PcNegotiates ==
  /\ socketState = "open"
  /\ peerConnection # NoConnection
  /\ ~pcNegotiated
  /\ pcNegotiated' = TRUE
  /\ lastConnOp' = "negotiate"
  /\ UNCHANGED <<hasRTC, connectionState, socketState, connectTimeoutId,
                 sinceDisconnect>>
  /\ UNCHANGED <<clientVars, poolVars>>

\* peerConnection.onconnectionstatechange
PcConnectionStateChange(state) ==
  /\ peerConnection # NoConnection
  /\ pcNegotiated
  /\ connectionState' = state
  /\ lastConnOp' = "pc-state"
  /\ UNCHANGED <<hasRTC, socketState, connectTimeoutId, pcNegotiated,
                 sinceDisconnect>>
  /\ UNCHANGED <<clientVars, poolVars>>

(***************************************************************************)
(* SFUAdapter: subscribe.  The adapter has a peer connection exactly while *)
(* it is connected; the connection has one ontrack handler.                *)
(***************************************************************************)
SfuUsers == {UserNames[i] : i \in 1..MaxSfuUsers}

\* The handler setupPeerConnectionHandlers installs, no handler, and the
\* onTrack of the call-th subscribe.
DefaultOnTrack == [kind |-> "default", call |-> 0]
NullOnTrack == [kind |-> "null", call |-> 0]
OnTrackOf(call) == [kind |-> "subscribe", call |-> call]

SfuInit ==
  /\ ontrack = NullOnTrack
  /\ calls = <<>>
  /\ lastSfuOp = [op |-> "none", userId |-> Undefined, streams |-> FALSE]

SfuOp(op, userId, streams) == [op |-> op, userId |-> userId, streams |-> streams]

\* The fields of the client the adapter does not write.
AdapterKeeps ==
  UNCHANGED <<options, currentArchitectureMode, roomUserCount, clientRoomId,
              peerConnection, lastClientEvent>>

\* SFUAdapter.connect()
AdapterConnect ==
  /\ ~sfuConnected
  /\ sfuConnected' = TRUE
  /\ ontrack' = DefaultOnTrack
  /\ clientEmitted' = <<ClientEmit("signaling", "sfu-connect", Undefined)>>
  /\ lastSfuOp' = SfuOp("connect", Undefined, FALSE)
  /\ UNCHANGED calls
  /\ AdapterKeeps

\* SFUAdapter.disconnect(): the timeouts of the pending calls stay.
AdapterDisconnect ==
  /\ sfuConnected
  /\ sfuConnected' = FALSE
  /\ ontrack' = NullOnTrack
  /\ clientEmitted' = <<ClientEmit("signaling", "sfu-disconnect", Undefined)>>
  /\ lastSfuOp' = SfuOp("disconnect", Undefined, FALSE)
  /\ UNCHANGED calls
  /\ AdapterKeeps

\* subscribe(userId): the promise of the call, its timeout and its handler.
Subscribe(userId) ==
  /\ Len(calls) < MaxCalls
  /\ calls' = Append(calls,
                     [userId |-> userId,
                      state |-> IF sfuConnected THEN "pending" ELSE "rejected",
                      stream |-> Undefined,
                      timeout |-> sfuConnected])
  /\ ontrack' = IF sfuConnected THEN OnTrackOf(Len(calls) + 1) ELSE ontrack
  /\ clientEmitted' = IF sfuConnected
                      THEN <<ClientEmit("signaling", "sfu-subscribe", Undefined)>>
                      ELSE <<>>
  /\ lastSfuOp' = SfuOp("subscribe", userId, FALSE)
  /\ UNCHANGED sfuConnected
  /\ AdapterKeeps

\* A track event of the connection: a track of user from, with or
\* without streams.
TrackArrives(from, streams) ==
  /\ sfuConnected
  /\ IF ontrack.kind = "subscribe" /\ streams
     THEN /\ calls' = [calls EXCEPT ![ontrack.call] =
                         [@ EXCEPT !.state = IF @ = "pending" THEN "resolved"
                                             ELSE @,
                                   !.stream = from,
                                   !.timeout = FALSE]]
          /\ ontrack' = NullOnTrack
     ELSE UNCHANGED <<calls, ontrack>>
  /\ clientEmitted' = <<>>
  /\ lastSfuOp' = SfuOp("track", from, streams)
  /\ UNCHANGED sfuConnected
  /\ AdapterKeeps

\* The timeout of the call-th subscribe fires.
SubscribeTimeout(call) ==
  /\ call \in DOMAIN calls
  /\ calls[call].timeout
  /\ calls' = [calls EXCEPT ![call] =
                 [@ EXCEPT !.state = IF @ = "pending" THEN "rejected" ELSE @,
                           !.timeout = FALSE]]
  /\ ontrack' = IF sfuConnected THEN NullOnTrack ELSE ontrack
  /\ clientEmitted' = <<>>
  /\ lastSfuOp' = SfuOp("timeout", calls[call].userId, FALSE)
  /\ UNCHANGED sfuConnected
  /\ AdapterKeeps

(***************************************************************************)
(* WebRTCManager: the servers it created and the configurations registered *)
(* with it.  A Map keeps its entries in insertion order, and close()       *)
(* iterates over this.servers with an await per entry: other calls run     *)
(* between two steps of the iteration, which sees the entries they add.    *)
(* One close() runs at a time.                                             *)
(***************************************************************************)
MaxInstances == 3

ManagerNames == {"main", "backup"}

ManagerInit(default) ==
  /\ servers = <<>>
  /\ configs = {}
  /\ defaultConfig = default
  /\ instances = <<>>
  /\ closing = FALSE
  /\ closeAt = 0
  /\ lastManagerOp = "new"

\* The place of a name in this.servers, 0 when it has none.
ServerIndex(name) ==
  IF \E i \in 1..Len(servers) : servers[i].name = name
  THEN CHOOSE i \in 1..Len(servers) : servers[i].name = name
  ELSE 0

\* registerServer(name, config)
RegisterServer(name) ==
  /\ configs' = configs \cup {name}
  /\ lastManagerOp' = "registerServer"
  /\ UNCHANGED <<servers, defaultConfig, instances, closing, closeAt>>

\* getServer(name): the instance of the name, created from its configuration
\* or from the default one when there is none yet; it throws without either.
GetServer(name) ==
  /\ lastManagerOp' = "getServer"
  /\ IF ServerIndex(name) = 0 /\ (name \in configs \/ defaultConfig)
     THEN /\ Len(instances) < MaxInstances
          /\ instances' = Append(instances, "open")
          /\ servers' = Append(servers, [name |-> name,
                                         instance |-> Len(instances) + 1])
     ELSE UNCHANGED <<servers, instances>>
  /\ UNCHANGED <<configs, defaultConfig, closing, closeAt>>

\* hasServer(name)
HasServer(name) == ServerIndex(name) # 0 \/ name \in configs

\* getServerNames()
GetServerNames == {servers[i].name : i \in 1..Len(servers)} \cup configs

\* removeServer(name): an entry the iteration of close() has passed leaves
\* the iteration one entry less behind it.
RemoveServer(name) ==
  LET i == ServerIndex(name) IN
  /\ lastManagerOp' = "removeServer"
  /\ IF i # 0
     THEN /\ instances' = [instances EXCEPT ![servers[i].instance] = "closed"]
          /\ servers' = SubSeq(servers, 1, i - 1)
                          \o SubSeq(servers, i + 1, Len(servers))
          /\ closeAt' = IF closing /\ i <= closeAt THEN closeAt - 1 ELSE closeAt
     ELSE UNCHANGED <<servers, instances, closeAt>>
  /\ configs' = configs \ {name}
  /\ UNCHANGED <<defaultConfig, closing>>

\* One turn of the loop of close(): the next entry's server is closed, and
\* after the last one this.servers is cleared.
CloseTurn(forgetConfigs) ==
  IF closeAt < Len(servers)
  THEN /\ instances' = [instances EXCEPT ![servers[closeAt + 1].instance] = "closed"]
       /\ closeAt' = closeAt + 1
       /\ closing' = TRUE
       /\ lastManagerOp' = "closing"
       /\ UNCHANGED <<servers, configs, defaultConfig>>
  ELSE /\ servers' = <<>>
       /\ configs' = IF forgetConfigs THEN {} ELSE configs
       /\ closeAt' = 0
       /\ closing' = FALSE
       /\ lastManagerOp' = "closed"
       /\ UNCHANGED <<instances, defaultConfig>>

\* close()
ManagerClose ==
  /\ ~closing
  /\ CloseTurn(FALSE)

\* A close() that clears this.configs as well.
CloseForgetsTheConfigs ==
  /\ closing
  /\ CloseTurn(TRUE)

\* close() goes on after the await of a server's close().
CloseResumes ==
  /\ closing
  /\ CloseTurn(FALSE)

(***************************************************************************)
(* RTCClient in a room of several: a connection per remote user, and the   *)
(* ICE candidates of each collected for 100 ms before they are sent.       *)
(***************************************************************************)
MaxIcePeers == 2
MaxCandidates == 2

IcePeers == {UserNames[i] : i \in 1..MaxIcePeers}

IceOp(op, userId, sent, live) ==
  [op |-> op, userId |-> userId, sent |-> sent, live |-> live]

IceInit ==
  /\ peerConnections = {}
  /\ iceCandidates = EmptyMap
  /\ iceCandidateTimers = {}
  /\ iceTimeouts = [u \in IcePeers |-> 0]
  /\ lastIceOp = IceOp("new", Undefined, 0, FALSE)

\* createPeerConnectionForUser(userId)
CreatePeerConnectionForUser(userId) ==
  /\ peerConnections' = peerConnections \cup {userId}
  /\ lastIceOp' = IceOp("create", userId, 0, TRUE)
  /\ UNCHANGED <<iceCandidates, iceCandidateTimers, iceTimeouts>>

\* pc.onicecandidate of the user's connection: collectIceCandidate and
\* scheduleIceCandidateSend.
CollectIceCandidate(userId) ==
  /\ userId \in peerConnections
  /\ ~(MapHas(iceCandidates, userId) /\ iceCandidates[userId] = MaxCandidates)
  /\ iceCandidates' =
       MapSet(iceCandidates, userId,
              IF MapHas(iceCandidates, userId)
              THEN iceCandidates[userId] + 1 ELSE 1)
  /\ iceCandidateTimers' = iceCandidateTimers \cup {userId}
  /\ iceTimeouts' = IF userId \in iceCandidateTimers THEN iceTimeouts
                    ELSE [iceTimeouts EXCEPT ![userId] = @ + 1]
  /\ lastIceOp' = IceOp("collect", userId, 0, TRUE)
  /\ UNCHANGED peerConnections

\* The callback of the send timer: the user's candidates are sent to the
\* signaling server and dropped.
IceCandidateTimerFires(userId) ==
  /\ iceTimeouts[userId] > 0
  /\ iceTimeouts' = [iceTimeouts EXCEPT ![userId] = @ - 1]
  /\ iceCandidates' = MapDelete(iceCandidates, userId)
  /\ iceCandidateTimers' = iceCandidateTimers \ {userId}
  /\ lastIceOp' = IceOp("send", userId,
                        IF MapHas(iceCandidates, userId)
                        THEN iceCandidates[userId] ELSE 0,
                        userId \in peerConnections)
  /\ UNCHANGED peerConnections

\* A removePeerConnectionForUser that leaves the send timer alone.
RemoveKeepsTheTimer(userId) ==
  /\ lastIceOp' = IceOp("remove", userId, 0, FALSE)
  /\ peerConnections' = peerConnections \ {userId}
  /\ iceCandidates' = IF userId \in peerConnections
                      THEN MapDelete(iceCandidates, userId) ELSE iceCandidates
  /\ UNCHANGED <<iceCandidateTimers, iceTimeouts>>

\* "user-left": removePeerConnectionForUser(userId)
RemovePeerConnectionForUser(userId) ==
  /\ lastIceOp' = IceOp("remove", userId, 0, FALSE)
  /\ IF userId \in peerConnections
     THEN /\ peerConnections' = peerConnections \ {userId}
          /\ iceCandidates' = MapDelete(iceCandidates, userId)
          /\ iceCandidateTimers' = iceCandidateTimers \ {userId}
          /\ iceTimeouts' = IF userId \in iceCandidateTimers
                            THEN [iceTimeouts EXCEPT ![userId] = @ - 1]
                            ELSE iceTimeouts
     ELSE UNCHANGED <<peerConnections, iceCandidates, iceCandidateTimers,
                      iceTimeouts>>

\* switchArchitecture away from mesh: every connection is closed and
\* this.peerConnections cleared.
SwitchClosesMesh ==
  /\ peerConnections' = {}
  /\ lastIceOp' = IceOp("switch", Undefined, 0, FALSE)
  /\ UNCHANGED <<iceCandidates, iceCandidateTimers, iceTimeouts>>

\* leaveRoom(): the connections are released and cleanup() clears the
\* candidates and every send timer.
LeaveRoomCleansUp ==
  /\ peerConnections' = {}
  /\ iceCandidates' = EmptyMap
  /\ iceCandidateTimers' = {}
  /\ iceTimeouts' = [u \in IcePeers |->
                       IF u \in iceCandidateTimers THEN iceTimeouts[u] - 1
                       ELSE iceTimeouts[u]]
  /\ lastIceOp' = IceOp("leave", Undefined, 0, FALSE)

(***************************************************************************)
(* The bandwidth estimate of checkNetworkQuality(), with the clock and the *)
(* byte counter of the connection made explicit.  Times are in seconds, so *)
(* lastUpdate / 1000 and timeDiff / 1000 of the code are the times as they *)
(* stand here; the elapsed times are chosen so that the division is exact. *)
(***************************************************************************)
MaxTicks == 3
StartTime == 100
ElapsedSeconds == {1, 2}
ReceivedBytes == {0, 1000, 2500}

BandwidthInit ==
  /\ bytesReceived = 0
  /\ clock = StartTime
  /\ bytesAtLastSample = 0
  /\ sampleCount = 0

\* The bandwidth field after a sample that reads totalBytesReceived from the
\* reports at time timestamp: bytesDiff subtracts the stored estimate times
\* the time of the previous sample.
BandwidthAfter(totalBytesReceived, timestamp) ==
  LET timeDiff == timestamp - networkStats.lastUpdate
  IN IF timeDiff > 0 /\ networkStats.lastUpdate > 0
     THEN LET bytesDiff == totalBytesReceived
                             - networkStats.bandwidth * networkStats.lastUpdate
          IN (bytesDiff * 8) \div timeDiff
     ELSE networkStats.bandwidth

\* Time passes and the connection receives: elapsed seconds, received bytes
\* more; then the monitor ticks and checkNetworkQuality() samples a
\* connection whose reports give no loss and no round trip time.
SampleTick(elapsed, received) ==
  LET timestamp == clock + elapsed
      totalBytesReceived == bytesReceived + received
      sample == [bandwidth |-> BandwidthAfter(totalBytesReceived, timestamp),
                 packetLoss |-> 0, rtt |-> 0, lastUpdate |-> timestamp]
  IN /\ sampleCount < MaxTicks
     /\ clock' = timestamp
     /\ bytesReceived' = totalBytesReceived
     /\ networkStats' = sample
     /\ currentQuality' = AdjustMediaQuality(sample)
     /\ lastQualityOp' = "sample"
     /\ bytesAtLastSample' = totalBytesReceived
     /\ sampleCount' = sampleCount + 1
     /\ UNCHANGED localStream

(***************************************************************************)
(* RTCClient in point-to-point mode: createOffer(), the handling of a      *)
(* received offer, the retry of a failed offer and the error counter.  An  *)
(* async function is suspended at each await; what it awaits resolves or   *)
(* rejects, and leaveRoom() can run while it is suspended.                 *)
(***************************************************************************)
MaxOfferEvents == 7
MaxRetryDepth == 3

IdleTask == [at |-> "idle", pc |-> NoConnection, left |-> FALSE]

Task(at, pc, left) == [at |-> at, pc |-> pc, left |-> left]

\* What a task did last: op is "act" for a call on a connection and "send"
\* for sendSignaling; left says whether leaveRoom() ran while the task was
\* suspended, released whether the connection was out of the pool's active
\* set, roomId is this.roomId at that time.
OfferOp(op, type, task, pc) ==
  [op |-> op, type |-> type, pc |-> pc, left |-> task.left,
   released |-> pc \notin activeConnections, roomId |-> clientRoomId]

OfferInit ==
  /\ offerTask = IdleTask
  /\ answerTask = IdleTask
  /\ signalingState = "stable"
  /\ retryTimers = 0
  /\ retryDepth = 0
  /\ errorCount = 0
  /\ errorEvents = 0
  /\ lastOfferOp = [op |-> "none", type |-> Undefined, pc |-> NoConnection,
                    left |-> FALSE, released |-> FALSE, roomId |-> Undefined]

\* this.peerConnection && this.peerConnection.signalingState === "stable"
StableConnection == peerConnection # NoConnection /\ signalingState = "stable"

\* createOffer() is entered: nothing without a connection, else
\* this.peerConnection.createOffer() is called and awaited.
EnterCreateOffer(depth) ==
  /\ retryDepth' = depth
  /\ IF peerConnection = NoConnection
     THEN offerTask' = IdleTask /\ UNCHANGED lastOfferOp
     ELSE /\ offerTask' = Task("createOffer", peerConnection, FALSE)
          /\ lastOfferOp' = OfferOp("act", "createOffer", IdleTask,
                                    peerConnection)

\* socket.on("user-joined"): an offer is created for a stable connection.
UserJoinedOffers ==
  /\ offerTask.at = "idle"
  /\ StableConnection
  /\ EnterCreateOffer(0)
  /\ UNCHANGED <<answerTask, signalingState, retryTimers, errorCount,
                 errorEvents>>

\* The catch block of createOffer(): the error is counted and emitted, and
\* a retry is scheduled when the connection is there and stable.
OfferCatch ==
  /\ offerTask' = IdleTask
  /\ errorCount' = errorCount + 1
  /\ errorEvents' = errorEvents + 1
  /\ retryTimers' = IF StableConnection THEN retryTimers + 1 ELSE retryTimers
  /\ UNCHANGED <<signalingState, lastOfferOp>>

\* What createOffer() awaits settles: resolved says how.  After
\* pc.createOffer() the code reads this.peerConnection again for
\* setLocalDescription, which throws when leaveRoom() has cleared it; after
\* setLocalDescription the offer is sent.
OfferResumes(resolved) ==
  /\ offerTask.at # "idle"
  /\ IF ~resolved THEN OfferCatch
     ELSE IF offerTask.at = "createOffer"
     THEN IF peerConnection = NoConnection THEN OfferCatch
          ELSE /\ offerTask' = Task("setLocalDescription", peerConnection,
                                    offerTask.left)
               /\ lastOfferOp' = OfferOp("act", "setLocalDescription",
                                         offerTask, peerConnection)
               /\ UNCHANGED <<signalingState, retryTimers, errorCount,
                              errorEvents>>
     ELSE /\ offerTask' = IdleTask
          /\ signalingState' = IF offerTask.pc = peerConnection
                               THEN "have-local-offer" ELSE signalingState
          /\ lastOfferOp' = OfferOp("send", "offer", offerTask, offerTask.pc)
          /\ UNCHANGED <<retryTimers, errorCount, errorEvents>>
  /\ UNCHANGED <<answerTask, retryDepth>>

\* The retry timeout of createOffer fires: createOffer() again, when the
\* connection is there and stable.
RetryTimerFires ==
  /\ retryTimers > 0
  /\ offerTask.at = "idle"
  /\ retryDepth < MaxRetryDepth
  /\ retryTimers' = retryTimers - 1
  /\ IF StableConnection THEN EnterCreateOffer(retryDepth + 1)
     ELSE UNCHANGED <<offerTask, retryDepth, lastOfferOp>>
  /\ UNCHANGED <<answerTask, signalingState, errorCount, errorEvents>>

\* handleSignaling with an offer, in point-to-point mode with a connection:
\* handleSignalingForPeer(pc, message) calls pc.setRemoteDescription.
OfferReceived ==
  /\ answerTask.at = "idle"
  /\ peerConnection # NoConnection
  /\ answerTask' = Task("setRemoteDescription", peerConnection, FALSE)
  /\ lastOfferOp' = OfferOp("act", "setRemoteDescription", IdleTask,
                            peerConnection)
  /\ UNCHANGED <<offerTask, signalingState, retryTimers, retryDepth,
                 errorCount, errorEvents>>

\* What the handling of the offer awaits settles.  The pc is the one the
\* handler was called with; a rejection ends in the catch of
\* handleSignaling, which counts and emits the error.
AnswerResumes(resolved) ==
  /\ answerTask.at # "idle"
  /\ IF ~resolved
     THEN /\ answerTask' = IdleTask
          /\ errorCount' = errorCount + 1
          /\ errorEvents' = errorEvents + 1
          /\ UNCHANGED <<signalingState, lastOfferOp>>
     ELSE IF answerTask.at = "setRemoteDescription"
     THEN /\ answerTask' = [answerTask EXCEPT !.at = "createAnswer"]
          /\ signalingState' = IF answerTask.pc = peerConnection
                               THEN "have-remote-offer" ELSE signalingState
          /\ lastOfferOp' = OfferOp("act", "createAnswer", answerTask,
                                    answerTask.pc)
          /\ UNCHANGED <<errorCount, errorEvents>>
     ELSE IF answerTask.at = "createAnswer"
     THEN /\ answerTask' = [answerTask EXCEPT !.at = "setLocalDescription"]
          /\ lastOfferOp' = OfferOp("act", "setLocalDescription", answerTask,
                                    answerTask.pc)
          /\ UNCHANGED <<signalingState, errorCount, errorEvents>>
     ELSE /\ answerTask' = IdleTask
          /\ signalingState' = IF answerTask.pc = peerConnection
                               THEN "stable" ELSE signalingState
          /\ lastOfferOp' = OfferOp("send", "answer", answerTask,
                                    answerTask.pc)
          /\ UNCHANGED <<errorCount, errorEvents>>
  /\ UNCHANGED <<offerTask, retryTimers, retryDepth>>

\* handleSignaling with a message of type "error", with a connection:
\* handleSignalingForPeer emits "error".
ServerErrorReceived ==
  /\ peerConnection # NoConnection
  /\ errorEvents' = errorEvents + 1
  /\ UNCHANGED <<offerTask, answerTask, signalingState, retryTimers,
                 retryDepth, errorCount, lastOfferOp>>

\* socket.on("error"): counted and emitted.
SocketError ==
  /\ errorCount' = errorCount + 1
  /\ errorEvents' = errorEvents + 1
  /\ UNCHANGED <<offerTask, answerTask, signalingState, retryTimers,
                 retryDepth, lastOfferOp>>

\* resetStats(), the client's.
ClientResetStats ==
  /\ errorCount' = 0
  /\ errorEvents' = 0
  /\ UNCHANGED <<offerTask, answerTask, signalingState, retryTimers,
                 retryDepth, lastOfferOp>>

\* joinRoom(): the new connection is stable; getUserMedia() resolves or
\* rejects, and its catch emits "error".
OfferJoinRoom(roomId, media) ==
  /\ ClientJoinRoom(roomId, TRUE)
  /\ signalingState' = "stable"
  /\ errorEvents' = IF media THEN errorEvents ELSE errorEvents + 1
  /\ UNCHANGED <<offerTask, answerTask, retryTimers, retryDepth, errorCount,
                 lastOfferOp>>

\* leaveRoom() or disconnect(): the suspended tasks and the retry timers
\* stay as they are.
OfferLeaveRoom(disconnect) ==
  /\ IF disconnect THEN ClientDisconnect ELSE ClientLeaveRoom
  /\ offerTask' = IF offerTask.at = "idle" THEN offerTask
                  ELSE [offerTask EXCEPT !.left = TRUE]
  /\ answerTask' = IF answerTask.at = "idle" THEN answerTask
                   ELSE [answerTask EXCEPT !.left = TRUE]
  /\ UNCHANGED <<signalingState, retryTimers, retryDepth, errorCount,
                 errorEvents, lastOfferOp>>

LateInit == BandwidthInit /\ OfferInit

(***************************************************************************)
(* Init: one server, one pool, one client.                                 *)
(***************************************************************************)
PeerDefaults == [p \in PeerIds |-> [DefaultOptions EXCEPT !.sfuOptions = TRUE]]

\* The parts of the client after its constructor.
MoreInit == ManagerInit(FALSE) /\ IceInit /\ LateInit

PartInit == QualityInit /\ DedupInit /\ ConnInit(TRUE) /\ SfuInit /\ MoreInit

Init ==
  /\ ServerInit /\ PoolInit /\ ClientInit(DefaultOptions)
  /\ PeerInit(PeerDefaults) /\ PartInit

\* The same, for a client constructed with any of the options.
ClientSpecInit ==
  /\ ServerInit /\ PoolInit /\ PeerInit(PeerDefaults) /\ PartInit
  /\ \E o \in ClientOptions : ClientInit(o)

(***************************************************************************)
(* Specifications of the server.  Every handled event counts towards the   *)
(* bound of the run.                                                       *)
(***************************************************************************)
CountEvent(bound) ==
  /\ eventCount < bound
  /\ eventCount' = eventCount + 1

\* One server event: the pool and the client stay as they are.
ServerStep(bound) ==
  CountEvent(bound) /\ UNCHANGED <<poolVars, clientVars, clientEventCount, peerVars, partVars>>

\* The registry under membership events alone.
RegistryNext ==
  \/ \E s \in SocketIds : Connection(s) /\ ServerStep(MaxEvents)
  \/ \E s \in SocketIds, r \in RoomIds, u \in NamedUsers \cup {Undefined} :
       HandleJoinRoom(s, r, u) /\ ServerStep(MaxEvents)
  \/ \E s \in SocketIds : HandleLeaveRoom(s) /\ ServerStep(MaxEvents)
  \/ \E s \in SocketIds : HandleDisconnect(s) /\ ServerStep(MaxEvents)

RegistrySpec == Init /\ [][RegistryNext]_vars

\* The registry and the router under every transport event and timer.
ServerNext ==
  \/ \E s \in SocketIds : Connection(s) /\ ServerStep(MaxRouterEvents)
  \/ \E s \in SocketIds, r \in RoomIds, u \in NamedUsers \cup {Undefined} :
       HandleJoinRoom(s, r, u) /\ ServerStep(MaxRouterEvents)
  \/ \E s \in SocketIds : HandleLeaveRoom(s) /\ ServerStep(MaxRouterEvents)
  \/ \E s \in SocketIds : HandleDisconnect(s) /\ ServerStep(MaxRouterEvents)
  \/ \E s \in SocketIds, t \in {"offer", "ice-candidate"},
        to \in UserIds \cup {Undefined}, l \in Latencies,
        claimed \in ClaimedFields :
       HandleSignaling(s, t, to, Undefined, l, claimed)
         /\ ServerStep(MaxRouterEvents)
  \/ \E s \in SocketIds, claimed \in ClaimedFields :
       HandleSignaling(s, "sfu-publish", Undefined, Undefined, 0, claimed)
         /\ ServerStep(MaxRouterEvents)
  \/ \E s \in SocketIds, m \in ArchitectureModes, claimed \in ClaimedFields :
       HandleSignaling(s, "architecture-mode", Undefined, m, 0, claimed)
         /\ ServerStep(MaxRouterEvents)
  \/ \E r \in RoomIds : FlushMessageQueue(r) /\ ServerStep(MaxRouterEvents)
  \/ ResetStats /\ ServerStep(MaxRouterEvents)
  \/ Close /\ ServerStep(MaxRouterEvents)

ServerSpec == Init /\ [][ServerNext]_vars

(***************************************************************************)
(* The pool under any sequence of calls.  A close timer that stays pending *)
(* fires: setTimeout callbacks run once their delay has elapsed.           *)
(***************************************************************************)
PoolStep ==
  UNCHANGED <<serverVars, clientVars, clientEventCount, peerVars, partVars>>

PoolTimer(pc) == CloseTimerFires(pc) /\ PoolStep

PoolNext ==
  \/ \E c \in PoolConfigs, a \in BOOLEAN : Acquire(c, a) /\ PoolStep
  \/ \E pc \in Handles : Release(pc) /\ PoolStep
  \/ \E pc \in Handles : ReleaseImmediate(pc) /\ PoolStep
  \/ Clear /\ PoolStep
  \/ \E pc \in Handles : PoolTimer(pc)

PoolSpec ==
  Init /\ [][PoolNext]_vars /\ \A pc \in Handles : WF_vars(PoolTimer(pc))

(***************************************************************************)
(* One client under the signaling events it receives and the calls of its  *)
(* application.                                                            *)
(***************************************************************************)
ClientStep ==
  /\ clientEventCount < MaxClientEvents
  /\ clientEventCount' = clientEventCount + 1
  /\ UNCHANGED <<serverVars, peerVars, partVars>>

\* The server sends a client its room's events, and the answer to its join
\* request, once the client has asked to join a room and until it leaves.
AskedToJoin == clientRoomId # Undefined

\* A close timer of the client's pool fires between two client events.
ClientCloseTimer(pc) ==
  /\ CloseTimerFires(pc)
  /\ lastClientEvent' = ClientEvent("close-timer", Undefined)
  /\ clientEmitted' = <<>>
  /\ UNCHANGED <<options, currentArchitectureMode, roomUserCount, clientRoomId,
                 peerConnection, sfuConnected>>

ClientNext ==
  \/ \E n \in 0..(MaxUserCount - 1), a \in BOOLEAN :
       AskedToJoin /\ RoomJoined(clientRoomId, n, a) /\ ClientStep
  \/ \E a \in BOOLEAN : AskedToJoin /\ UserJoined(a) /\ ClientStep
  \/ \E a \in BOOLEAN : AskedToJoin /\ UserLeft(a) /\ ClientStep
  \/ \E m \in ArchitectureModes, a \in BOOLEAN :
       AskedToJoin /\ ArchitectureModeNotice(m, a) /\ ClientStep
  \/ \E r \in RoomIds, a \in BOOLEAN : ClientJoinRoom(r, a) /\ ClientStep
  \/ ClientLeaveRoom /\ ClientStep
  \/ ClientDisconnect /\ ClientStep
  \/ \E pc \in Handles : ClientCloseTimer(pc) /\ ClientStep

ClientSpec == ClientSpecInit /\ [][ClientNext]_vars

(***************************************************************************)
(* The clients of one room and the server between them.                    *)
(***************************************************************************)
RoomSpecInit ==
  /\ ServerInit /\ PoolInit /\ ClientInit(DefaultOptions) /\ PartInit
  /\ \E with \in [PeerIds -> PeerClientOptions] : PeerInit(with)

RoomStep ==
  /\ CountEvent(MaxRoomEvents)
  /\ UNCHANGED <<poolVars, clientVars, clientEventCount, partVars>>

RoomNext ==
  \/ \E p \in PeerIds : PeerConnect(p) /\ RoomStep
  \/ \E p \in PeerIds : PeerJoinRoom(p) /\ RoomStep
  \/ \E p \in PeerIds : PeerLeaveRoom(p) /\ RoomStep
  \/ \E p \in PeerIds : ServerHandlesJoin(p) /\ RoomStep
  \/ \E p \in PeerIds : ServerHandlesLeave(p) /\ RoomStep
  \/ \E p \in PeerIds : ServerHandlesNotice(p) /\ RoomStep
  \/ \E p \in PeerIds : PeerReceives(p) /\ RoomStep

RoomSpec == RoomSpecInit /\ [][RoomNext]_vars

\* The same clients, which may also call joinRoom() when
\* they are in the room already.
MaxRejoinEvents == 13

RejoinStep ==
  /\ CountEvent(MaxRejoinEvents)
  /\ UNCHANGED <<poolVars, clientVars, clientEventCount, partVars>>

RejoinNext ==
  \/ \E p \in PeerIds : PeerConnect(p) /\ RejoinStep
  \/ \E p \in PeerIds : PeerJoinRoom(p) /\ RejoinStep
  \/ \E p \in PeerIds : PeerJoinsAgain(p) /\ RejoinStep
  \/ \E p \in PeerIds : PeerLeaveRoom(p) /\ RejoinStep
  \/ \E p \in PeerIds : ServerHandlesJoin(p) /\ RejoinStep
  \/ \E p \in PeerIds : ServerHandlesLeave(p) /\ RejoinStep
  \/ \E p \in PeerIds : ServerHandlesNotice(p) /\ RejoinStep
  \/ \E p \in PeerIds : PeerReceives(p) /\ RejoinStep

RejoinSpec == RoomSpecInit /\ [][RejoinNext]_vars

(***************************************************************************)
(* The quality adapter under its ticks.                                    *)
(***************************************************************************)
QualityStep ==
  UNCHANGED <<serverVars, poolVars, clientVars, clientEventCount, peerVars,
              dedupVars, connVars, sfuVars, moreVars>>

QualityNext ==
  \/ \E hasPc, threw \in BOOLEAN, b \in Bandwidths, l \in PacketLosses,
        t \in RoundTripTimes :
       CheckNetworkQuality(hasPc, threw, b, l, t) /\ QualityStep
  \/ \E stream \in BOOLEAN : SetLocalStream(stream) /\ QualityStep

QualitySpec == Init /\ [][QualityNext]_vars

(***************************************************************************)
(* One client, in a room or not and in either mode, under the signaling    *)
(* messages it receives.                                                   *)
(***************************************************************************)
SignalingSpecInit ==
  /\ ServerInit /\ PoolInit /\ PeerInit(PeerDefaults) /\ PartInit
  /\ \E sfu \in BOOLEAN : ClientInit([DefaultOptions EXCEPT !.sfuOptions = sfu])

SignalingStep ==
  /\ clientEventCount < MaxClientEvents
  /\ clientEventCount' = clientEventCount + 1
  /\ UNCHANGED <<serverVars, peerVars, qualityVars, connVars, sfuVars,
                 moreVars>>

SignalingNext ==
  \/ \E m \in SignalingMessages : HandleSignalingMessage(m) /\ SignalingStep
  \/ \E n \in {1, ProcessedIdsLimit} : HandleOtherMessages(n) /\ SignalingStep
  \/ \E r \in RoomIds :
       ClientJoinRoom(r, TRUE) /\ UNCHANGED dedupVars /\ SignalingStep
  \/ \E m \in ArchitectureModes :
       /\ AskedToJoin /\ ArchitectureModeNotice(m, TRUE)
       /\ UNCHANGED dedupVars /\ SignalingStep
  \/ ClientLeaveRoom /\ Cleanup /\ SignalingStep

SignalingSpec == SignalingSpecInit /\ [][SignalingNext]_vars

(***************************************************************************)
(* One client, its socket and its connect timeout, in an environment with  *)
(* or without RTCPeerConnection.                                           *)
(***************************************************************************)
ConnSpecInit ==
  /\ ServerInit /\ PoolInit /\ PeerInit(PeerDefaults)
  /\ ClientInit(DefaultOptions) /\ QualityInit /\ DedupInit /\ SfuInit
  /\ MoreInit
  /\ \E rtc \in BOOLEAN : ConnInit(rtc)

ConnStep ==
  /\ clientEventCount < MaxConnEvents
  /\ clientEventCount' = clientEventCount + 1
  /\ UNCHANGED <<serverVars, peerVars, qualityVars, dedupVars, sfuVars,
                 moreVars>>

\* A call or an event that leaves the room and the pool as they are.
SocketStep == ConnStep /\ UNCHANGED <<clientVars, poolVars>>

ConnNext ==
  \/ Connect /\ SocketStep
  \/ SocketConnects /\ SocketStep
  \/ \E reconnects \in BOOLEAN : SocketDrops(reconnects) /\ SocketStep
  \/ ConnectTimeout /\ SocketStep
  \/ Disconnect /\ ConnStep
  \/ \E r \in RoomIds : ConnJoinRoom(r) /\ ConnStep
  \/ PcNegotiates /\ ConnStep
  \/ \E state \in {"connecting", "connected", "disconnected", "failed"} :
       PcConnectionStateChange(state) /\ ConnStep

ConnSpec == ConnSpecInit /\ [][ConnNext]_vars

(***************************************************************************)
(* The SFU adapter of a client constructed with sfuOptions, under the      *)
(* calls of subscribe, the track events and the timeouts.                  *)
(***************************************************************************)
SfuSpecInit ==
  /\ ServerInit /\ PoolInit /\ PeerInit(PeerDefaults) /\ PartInit
  /\ ClientInit([DefaultOptions EXCEPT !.sfuOptions = TRUE])

SfuStep ==
  UNCHANGED <<serverVars, poolVars, clientEventCount, peerVars, qualityVars,
              dedupVars, connVars, moreVars>>

SfuNext ==
  \/ AdapterConnect /\ SfuStep
  \/ AdapterDisconnect /\ SfuStep
  \/ \E u \in SfuUsers : Subscribe(u) /\ SfuStep
  \/ \E u \in SfuUsers, streams \in BOOLEAN : TrackArrives(u, streams) /\ SfuStep
  \/ \E c \in 1..MaxCalls : SubscribeTimeout(c) /\ SfuStep

SfuSpec == SfuSpecInit /\ [][SfuNext]_vars

(***************************************************************************)
(* The manager alone: a manager constructed with or without a default      *)
(* configuration, and the calls of its methods.                            *)
(***************************************************************************)
ManagerSpecInit ==
  /\ ServerInit /\ PoolInit /\ PeerInit(PeerDefaults)
  /\ ClientInit(DefaultOptions) /\ QualityInit /\ DedupInit /\ ConnInit(TRUE)
  /\ SfuInit /\ IceInit /\ LateInit
  /\ \E default \in BOOLEAN : ManagerInit(default)

ManagerStep ==
  UNCHANGED <<serverVars, poolVars, clientVars, clientEventCount, peerVars,
              qualityVars, dedupVars, connVars, sfuVars, iceVars, lateVars>>

ManagerNext ==
  \/ \E n \in ManagerNames : RegisterServer(n) /\ ManagerStep
  \/ \E n \in ManagerNames : GetServer(n) /\ ManagerStep
  \/ \E n \in ManagerNames : RemoveServer(n) /\ ManagerStep
  \/ ManagerClose /\ ManagerStep
  \/ CloseResumes /\ ManagerStep

ManagerSpec == ManagerSpecInit /\ [][ManagerNext]_vars

(***************************************************************************)
(* The configuration cache of the pool: acquire with more configurations   *)
(* than the cache holds.  The configurations differ in their ICE servers,  *)
(* and a run comes to them in their order: the first call that misses the  *)
(* cache of n entries is one for the first n + 1 configurations.           *)
(***************************************************************************)
MaxCacheKeys == 11
MaxAcquires == 12

StunLists ==
  <<"[{\"urls\":\"stun:stun1.example.org\"}]",
   "[{\"urls\":\"stun:stun2.example.org\"}]",
   "[{\"urls\":\"stun:stun3.example.org\"}]",
   "[{\"urls\":\"stun:stun4.example.org\"}]",
   "[{\"urls\":\"stun:stun5.example.org\"}]",
   "[{\"urls\":\"stun:stun6.example.org\"}]",
   "[{\"urls\":\"stun:stun7.example.org\"}]",
   "[{\"urls\":\"stun:stun8.example.org\"}]",
   "[{\"urls\":\"stun:stun9.example.org\"}]",
   "[{\"urls\":\"stun:stun10.example.org\"}]",
   "[{\"urls\":\"stun:stun11.example.org\"}]",
   "[{\"urls\":\"stun:stun12.example.org\"}]",
   "[{\"urls\":\"stun:stun13.example.org\"}]",
   "[{\"urls\":\"stun:stun14.example.org\"}]">>

CacheConfigs ==
  [k \in 1..MaxCacheKeys |->
     [iceTransportPolicy |-> Undefined, bundlePolicy |-> Undefined,
      iceServers |-> StunLists[k], iceCandidatePoolSize |-> 0]]

CacheStep ==
  /\ clientEventCount < MaxAcquires
  /\ clientEventCount' = clientEventCount + 1
  /\ UNCHANGED <<serverVars, clientVars, peerVars, partVars>>

CacheNext ==
  \/ \E k \in 1..MaxCacheKeys, a \in BOOLEAN :
       /\ k <= Len(configCache) + 1
       /\ Acquire(CacheConfigs[k], a)
       /\ CacheStep

CacheSpec == Init /\ [][CacheNext]_vars

(***************************************************************************)
(* The mesh peers of one client and the candidates it collects for them.   *)
(***************************************************************************)
IceStep ==
  UNCHANGED <<serverVars, poolVars, clientVars, clientEventCount, peerVars,
              qualityVars, dedupVars, connVars, sfuVars, managerVars,
              lateVars>>

IceNext ==
  \/ \E u \in IcePeers : CreatePeerConnectionForUser(u) /\ IceStep
  \/ \E u \in IcePeers : CollectIceCandidate(u) /\ IceStep
  \/ \E u \in IcePeers : IceCandidateTimerFires(u) /\ IceStep
  \/ \E u \in IcePeers : RemovePeerConnectionForUser(u) /\ IceStep
  \/ SwitchClosesMesh /\ IceStep
  \/ LeaveRoomCleansUp /\ IceStep

IceSpec == Init /\ [][IceNext]_vars

\* The quality monitor alone, sampling a connection that keeps receiving.
BandwidthStep ==
  UNCHANGED <<serverVars, poolVars, clientVars, clientEventCount, peerVars,
              dedupVars, connVars, sfuVars, managerVars, iceVars, offerVars>>

BandwidthNext ==
  \/ \E elapsed \in ElapsedSeconds, received \in ReceivedBytes :
       SampleTick(elapsed, received) /\ BandwidthStep
  \/ \E stream \in BOOLEAN :
       SetLocalStream(stream) /\ BandwidthStep /\ UNCHANGED bandwidthVars

BandwidthSpec == Init /\ [][BandwidthNext]_vars

\* One client in point-to-point mode, its offers and answers.
OfferStep ==
  /\ clientEventCount < MaxOfferEvents
  /\ clientEventCount' = clientEventCount + 1
  /\ UNCHANGED <<serverVars, peerVars, qualityVars, dedupVars, connVars,
                 sfuVars, managerVars, iceVars, bandwidthVars>>

\* A step of a task: the room, the connection and the pool stay.
TaskStep ==
  /\ OfferStep
  /\ UNCHANGED <<options, currentArchitectureMode, roomUserCount, clientRoomId,
                 peerConnection, sfuConnected, clientEmitted, lastClientEvent>>
  /\ UNCHANGED poolVars

OfferNext ==
  \/ \E r \in {RoomNames[1]}, media \in BOOLEAN :
       OfferJoinRoom(r, media) /\ OfferStep
  \/ \E d \in BOOLEAN : OfferLeaveRoom(d) /\ OfferStep
  \/ UserJoinedOffers /\ TaskStep
  \/ \E resolved \in BOOLEAN : OfferResumes(resolved) /\ TaskStep
  \/ RetryTimerFires /\ TaskStep
  \/ OfferReceived /\ TaskStep
  \/ \E resolved \in BOOLEAN : AnswerResumes(resolved) /\ TaskStep
  \/ ServerErrorReceived /\ TaskStep
  \/ SocketError /\ TaskStep
  \/ ClientResetStats /\ TaskStep

OfferSpec == Init /\ [][OfferNext]_vars






(***************************************************************************)
(* Claims about the registry and the router.                               *)
(***************************************************************************)
MembersOf(roomId) ==
  IF MapHas(rooms, roomId) THEN Range(rooms[roomId].users) ELSE {}

\* C1: after any sequence of join-room, leave-room and disconnect events,
\* each room's member list is exactly the set of users who joined that room
\* and have not since left or disconnected, and no registered room has an
\* empty member list.
C1_MembersAreJoinedNotLeft ==
  /\ \A r \in RoomIds :
       MembersOf(r) = {u \in UserIds : <<r, u>> \in joinedNotLeft}
  /\ \A r \in DOMAIN rooms : rooms[r].users # <<>>

RoomsListing(userId) == {r \in DOMAIN rooms : Includes(rooms[r].users, userId)}

\* C2: for every user record, user.roomId is defined iff the user id is in
\* exactly one room's member list, and no user id is in two member lists.
C2_RoomIdIffInExactlyOneRoom ==
  /\ \A u \in DOMAIN users :
       (users[u].roomId # Undefined) <=> (Cardinality(RoomsListing(u)) = 1)
  /\ \A u \in UserIds : Cardinality(RoomsListing(u)) <= 1

RegistryAndQueues ==
  <<rooms, users, socketToUser, userToSocket, stats, messageLatencies,
    messageQueue, messageQueueTimers>>

\* The sender's socket is bound to no registered user, or to one in no room.
SenderOutsideAnyRoom(socket) ==
  \A u \in DOMAIN users :
    MapGet(socketToUser, socket) = u => users[u].roomId = Undefined

\* C3: a signaling message from a socket whose user is not registered, or
\* has no current room, is forwarded to nobody: the only emit is one error
\* message to the sender, and the registry, the statistics and the ICE
\* queues stay as they were.
C3_RejectedSignalingOnlyAnswersSender ==
  [][ (lastEvent'.op = "signaling" /\ SenderOutsideAnyRoom(lastEvent'.socket))
        => /\ emitted' = <<ErrorEmission(lastEvent'.socket)>>
           /\ UNCHANGED RegistryAndQueues ]_vars

\* Witness of C3: a rejected message was just handled while another socket
\* sits in a room and could have been sent it.
C3_Witness ==
  /\ lastEvent.op = "signaling"
  /\ SenderOutsideAnyRoom(lastEvent.socket)
  /\ emitted = <<ErrorEmission(lastEvent.socket)>>
  /\ \E s \in SocketIds \ {lastEvent.socket} : ~SenderOutsideAnyRoom(s)

Delivered(emits) == UNION {emits[i].targets : i \in DOMAIN emits}

\* What C4 asks of the delivery of a message from sender (on socket) in room.
RoutedAsClaimed(socket, sender, roomId, to, emits) ==
  IF to # Undefined
  THEN Delivered(emits) =
         (IF MapHas(userToSocket, to) THEN {userToSocket[to]} ELSE {})
  ELSE /\ socket \notin Delivered(emits)
       /\ \A m \in MembersOf(roomId) \ {sender} :
            MapHas(userToSocket, m) /\ userToSocket[m] \in Delivered(emits)

\* C4: a routed offer/answer (at once) or ICE candidate (at the flush) with
\* `to` set reaches exactly that user's current socket, or nobody when the
\* user has no socket mapping; with `to` unset it reaches every other member
\* of the sender's room and never the sender.
C4_UnicastOrBroadcastToMembers ==
  [][ /\ (lastEvent'.op = "signaling" /\ lastEvent'.type = "offer"
            /\ ~SignalingRejected(lastEvent'.socket))
         => RoutedAsClaimed(lastEvent'.socket,
                            socketToUser[lastEvent'.socket],
                            users[socketToUser[lastEvent'.socket]].roomId,
                            lastEvent'.to, emitted')
      /\ \A r \in RoomIds :
           (lastEvent'.op = "flush" /\ lastEvent'.roomId = r
              /\ MapHas(messageQueue, r) /\ Len(messageQueue[r]) = 1
              /\ MapHas(users, messageQueue[r][1].from)
              /\ users[messageQueue[r][1].from].roomId = r
              /\ MapHas(userToSocket, messageQueue[r][1].from))
           => RoutedAsClaimed(userToSocket[messageQueue[r][1].from],
                              messageQueue[r][1].from, r,
                              messageQueue[r][1].to, emitted') ]_vars

\* C5: on a join, the room-joined payload sent to the joiner lists exactly
\* the other current members, and every member already in the room is sent
\* the user-joined event.
C5_JoinNotifiesEveryExistingMember ==
  lastEvent.op = "join-room" =>
    LET others == MembersOf(lastEvent.roomId) \ {lastEvent.userId}
    IN /\ Len(emitted) = 2
       /\ emitted[2].event = "room-joined"
       /\ emitted[2].targets = {lastEvent.socket}
       /\ Range(emitted[2].payload.users) = others
       /\ Len(emitted[2].payload.users) = Cardinality(others)
       /\ emitted[1].event = "user-joined"
       /\ emitted[1].payload.userId = lastEvent.userId
       /\ \A m \in others :
            MapHas(userToSocket, m) /\ userToSocket[m] \in emitted[1].targets

\* A join-room handled by a server with no room and no user: Scenario A.
FirstJoin == lastEvent'.op = "join-room" /\ DOMAIN rooms = {} /\ DOMAIN users = {}

\* C6 as amended: after a single user has joined r1, getRoomUsers("r1") is
\* the list holding that user, the room has exactly one member, and it is
\* the room-joined payload that lists no user (the joiner is left out).
C6_SingleJoinListsTheJoiner ==
  [][ \A r \in RoomIds :
        (FirstJoin /\ lastEvent'.roomId = r)
          => /\ r \in DOMAIN rooms'
             /\ Len(GetRoom(r)'.users) = 1
             /\ GetRoomUsers(r)' = <<lastEvent'.userId>>
             /\ emitted'[2].event = "room-joined"
             /\ emitted'[2].payload.users = <<>> ]_vars

\* C6 as claimed: after a single user has joined r1, getRoomUsers("r1") is
\* empty while the room exists with one member.
C6_Original ==
  [][ \A r \in RoomIds :
        (FirstJoin /\ lastEvent'.roomId = r)
          => /\ r \in DOMAIN rooms'
             /\ Len(GetRoom(r)'.users) = 1
             /\ GetRoomUsers(r)' = <<>> ]_vars

C6_Witness ==
  /\ lastEvent.op = "join-room"
  /\ eventCount = 2
  /\ DOMAIN rooms = {lastEvent.roomId}
  /\ GetRoomUsers(lastEvent.roomId) = <<lastEvent.userId>>
  /\ emitted[2].payload.users = <<>>

SecondLeave(op) ==
  /\ lastEvent.op = "leave-room"
  /\ lastEvent'.op = op
  /\ lastEvent'.socket = lastEvent.socket

\* C7 as amended: a leave-room directly after a leave-room of the same socket
\* changes nothing and emits nothing; a disconnect directly after a leave-room
\* emits nothing and leaves the rooms alone, and deletes the socket's user
\* record and its two socket mappings.
C7_SecondLeaveIsNoOp ==
  [][ /\ SecondLeave("leave-room")
         => /\ emitted' = <<>>
            /\ UNCHANGED <<rooms, users, socketToUser, userToSocket, ioRooms>>
      /\ SecondLeave("disconnect")
         => /\ emitted' = <<>>
            /\ UNCHANGED rooms
            /\ \A s \in SocketIds :
                 (lastEvent'.socket = s /\ MapHas(socketToUser, s))
                   => /\ users' = MapDelete(users, socketToUser[s])
                      /\ socketToUser' = MapDelete(socketToUser, s)
                      /\ userToSocket' = MapDelete(userToSocket, socketToUser[s])
     ]_vars

\* C7 as claimed: the second of two leaves in a row, or a disconnect after a
\* leave, changes no server state and emits nothing.
C7_Original ==
  [][ (SecondLeave("leave-room") \/ SecondLeave("disconnect"))
        => /\ emitted' = <<>>
           /\ UNCHANGED <<rooms, users, socketToUser, userToSocket>> ]_vars

\* Witness of C7: a registered user's leave-room was just handled right after
\* a leave-room of the same socket, with another member still in a room.
C7_Witness ==
  /\ lastEvent.op = "leave-room"
  /\ lastEvent.afterLeave
  /\ MapHas(socketToUser, lastEvent.socket)
  /\ DOMAIN rooms # {}

(***************************************************************************)
(* C8: after any sequence of acquire, release, releaseImmediate and clear  *)
(* the pool's statistics satisfy created - released = active and           *)
(* active + pendingClose <= created.                                       *)
(***************************************************************************)
C8_PoolStatsBalance ==
  LET s == GetPoolStats
  IN /\ s.created - s.released = s.active
     /\ s.active + s.pendingClose <= s.created

(***************************************************************************)
(* C9: release(handle) takes an active handle out of the active set and    *)
(* leaves it pending, not closed; a handle is closed only by its close     *)
(* timer, by releaseImmediate or by clear; acquire returns a handle that   *)
(* was never active, pending or closed before; and every pending handle is *)
(* eventually closed.                                                      *)
(***************************************************************************)
ReleasesActive ==
  lastPoolOp'.op = "release" /\ lastPoolOp'.pc \in activeConnections

C10_AutoModeFollowsTheCount ==
  options.architectureMode = "auto" =>
    /\ roomUserCount < Threshold => currentArchitectureMode = "mesh"
    /\ roomUserCount >= Threshold => currentArchitectureMode = "sfu"

(***************************************************************************)
(* C11 as amended: when the configured mode is mesh or sfu, the current    *)
(* mode starts as the configured mode and no membership event or call      *)
(* changes it; it changes only when an architecture-mode notification      *)
(* names another mode, and then becomes the mode the notification names.   *)
(***************************************************************************)
FixedMode == options.architectureMode \in {"mesh", "sfu"}

C11_FixedModeChangesOnlyOnNotice ==
  /\ FixedMode => currentArchitectureMode = options.architectureMode
  /\ [][(FixedMode /\ currentArchitectureMode' # currentArchitectureMode)
          => /\ lastClientEvent'.op = "architecture-mode"
             /\ currentArchitectureMode' = lastClientEvent'.mode]_vars

\* C11 as claimed: when the configured mode is mesh or sfu, the current mode
\* equals the configured mode in every reachable state.
C11_Original == FixedMode => currentArchitectureMode = options.architectureMode

\* Witness of C11: under a fixed mesh mode a membership event took the count
\* to the threshold and the mode is still mesh.
C11_Witness ==
  /\ options.architectureMode = "mesh"
  /\ lastClientEvent.op \in {"room-joined", "user-joined"}
  /\ roomUserCount >= Threshold
  /\ currentArchitectureMode = "mesh"

(***************************************************************************)
(* C12: when no sfuOptions are configured and the configured mode is sfu   *)
(* or auto, the client never connects to an SFU, its current mode is mesh, *)
(* and no signaling event closes a mesh connection by switching the mode.  *)
(***************************************************************************)
NoSfuEndpoint ==
  options.architectureMode \in {"sfu", "auto"} /\ ~options.sfuOptions

C12_NoSfuEndpointStaysMesh ==
  /\ [](NoSfuEndpoint => (~sfuConnected /\ currentArchitectureMode = "mesh"))
  /\ [][(NoSfuEndpoint /\ lastClientEvent'.op \in
            {"room-joined", "user-joined", "user-left", "architecture-mode"})
          => closedConnections' = closedConnections]_vars

(***************************************************************************)
(* C13: under configured mode auto, the membership event that takes the    *)
(* count from below the threshold to the threshold or above while the mode *)
(* is mesh performs the mesh -> sfu transition, with one architecture-mode *)
(* notification; a membership event that leaves the count at or above the  *)
(* threshold while the mode is sfu performs no transition and sends no     *)
(* notification.  So a count that crosses once and stays gives one         *)
(* transition.                                                             *)
(***************************************************************************)
MembershipEvents == {"room-joined", "user-joined", "user-left"}

ModeNotices(emits) ==
  {i \in DOMAIN emits : emits[i].type = "architecture-mode"}

Quiescent == \A p \in PeerIds : inbox[p] = <<>> /\ outbox[p] = <<>>

\* The clients the server lists as members of the room, each of which has
\* asked to join and has not left since.
PeersInRoom ==
  {p \in PeerIds : p \in MembersOf(PeerRoom) /\ peerRoomId[p] = PeerRoom}

\* C14: once every architecture-mode notification in flight has been
\* delivered, and with no membership change under way, all the clients that
\* are members of one room have the same current mode.
C14_PeersAgreeOnceDelivered ==
  Quiescent => \A p, q \in PeersInRoom : peerMode[p] = peerMode[q]

\* The tier the ordered rules give a sample: a round trip above 300 ms, a
\* loss above 5 % or a bandwidth under 500 kbps give low; otherwise each of
\* a round trip above 150 ms and a loss above 2 % takes one step off the
\* tier of the bandwidth (medium under 2000 kbps, else high).
StepDown(tier) == IF tier = "high" THEN "medium" ELSE "low"
TierOfBandwidth(sample) ==
  IF sample.bandwidth < 2000000 THEN "medium" ELSE "high"
TierOfSample(sample) ==
  IF sample.rtt > 300 \/ sample.packetLoss > 5 \/ sample.bandwidth < 500000
  THEN "low"
  ELSE IF sample.rtt > 150 /\ sample.packetLoss > 2
  THEN StepDown(StepDown(TierOfBandwidth(sample)))
  ELSE IF sample.rtt > 150 \/ sample.packetLoss > 2
  THEN StepDown(TierOfBandwidth(sample))
  ELSE TierOfBandwidth(sample)

\* C15: after a sampling tick the quality tier is the tier of the latest
\* sample under the ordered threshold rules, whatever the tier was before
\* and whatever else the client's state is; a round trip of 400 ms with a
\* loss of 1 % and a bandwidth of 3,000,000 gives low.
C15_TierIsTheTierOfTheSample ==
  lastQualityOp = "sample" => GetNetworkStats.quality = TierOfSample(networkStats)

\* The same for a client that has a local stream.
C15_WithLocalStream ==
  (lastQualityOp = "sample" /\ localStream)
    => GetNetworkStats.quality = TierOfSample(networkStats)

\* C16: a signaling message received a second time with the same type, sender
\* and SDP or candidate prefix is not processed again: a peer connection is
\* given it once at most.
C16_AppliedOnceAtMost == \A m \in SignalingMessages : applied[m] <= 1

\* The same for the messages the client handles itself, while its Set of
\* processed ids is not cleared.
C16_WhileTheIdIsKept ==
  [][\A m \in SignalingMessages :
       (/\ lastSignaling' = m
        /\ ~RoutedToSfuAdapter(m)
        /\ GetMessageId(m) \in processedSignalingIds)
         => applied'[m] = applied[m]]_vars

\* C17: in an environment without RTCPeerConnection, connect() sets the
\* connection state to failed at once, does not open the signaling
\* connection and schedules no connect timeout; nothing calls it again, so
\* the socket stays closed and no timeout is ever pending.
C17_NoRtcConnectFailsAtOnce ==
  /\ [](~hasRTC => (socketState = "closed" /\ ~connectTimeoutId))
  /\ [][(~hasRTC /\ lastConnOp' = "connect")
          => /\ connectionState' = "failed"
             /\ socketState' = socketState
             /\ connectTimeoutId' = connectTimeoutId]_vars
  /\ [][(~hasRTC /\ connectionState = "failed" /\ connectionState' # "failed")
          => lastConnOp' = "disconnect"]_vars

C17_Witness ==
  ~hasRTC /\ lastConnOp = "connect" /\ connectionState = "failed"

\* C18: when the connect timeout fires and the signaling socket is not
\* connected, the client closes the socket and sets its state to failed;
\* the "connect" event and disconnect() cancel the timeout, which then
\* changes nothing any more.
C18_TimeoutFailsUnlessConnected ==
  /\ [][(lastConnOp' = "connect-timeout" /\ socketState # "open")
          => (socketState' = "closed" /\ connectionState' = "failed")]_vars
  /\ [][lastConnOp' \in {"socket-connect", "disconnect"}
          => ~connectTimeoutId']_vars

\* The same, but for a client whose connection state was last written for
\* its signaling socket.
C18_CancelledByConnectAndDisconnect ==
  [][lastConnOp' \in {"socket-connect", "disconnect"} => ~connectTimeoutId']_vars

\* C19: after disconnect() the connection state is closed, and it stays
\* closed until connect() is called again; a repeated disconnect() leaves it
\* closed.
C19_ClosedUntilConnect == sinceDisconnect > 0 => connectionState = "closed"

C19_Witness ==
  /\ sinceDisconnect = 2
  /\ lastConnOp = "disconnect"
  /\ connectionState = "closed"

\* The calls of subscribe(userId) whose promise is pending.
PendingFor(userId) ==
  {c \in DOMAIN calls : calls[c].userId = userId /\ calls[c].state = "pending"}

\* C20: subscribe(userId) sends sfu-subscribe, and its promise is resolved
\* only by a track of that user and rejected by its timeout when no such
\* track arrives; and so for each call when several are pending: a track of
\* a user resolves the pending calls for that user.
C20_SubscribeResolvesWithItsUser ==
  /\ [](\A c \in DOMAIN calls :
          /\ calls[c].state = "resolved" => calls[c].stream = calls[c].userId
          /\ calls[c].state = "pending" => calls[c].timeout)
  /\ [][(lastSfuOp'.op = "track" /\ lastSfuOp'.streams)
          => \A c \in PendingFor(lastSfuOp'.userId) :
               calls'[c].state = "resolved"]_vars

\* What does hold: a call on a connected adapter sends sfu-subscribe, a
\* pending call has its timeout pending, and the timeout rejects it.
C20_SendsAndTimesOut ==
  /\ [](\A c \in DOMAIN calls : calls[c].state = "pending" => calls[c].timeout)
  /\ [][(lastSfuOp'.op = "subscribe" /\ sfuConnected)
          => clientEmitted' = <<ClientEmit("signaling", "sfu-subscribe", Undefined)>>]_vars
  /\ [][lastSfuOp'.op = "timeout"
          => \A c \in DOMAIN calls :
               (calls[c].state = "pending" /\ ~calls'[c].timeout)
                 => calls'[c].state = "rejected"]_vars

\* The registry, the socket mappings and the pending ICE queues.
RegistryState ==
  <<rooms, users, socketToUser, userToSocket, messageQueue, messageQueueTimers>>

\* C21: resetStats() sets messagesReceived, messagesSent, messagesDelayed
\* and averageLatency to 0 and leaves the rooms, the users, the socket
\* mappings and the pending ICE queues as they are; a second resetStats()
\* right after changes nothing more.
C21_ResetStatsOnlyResetsTheCounters ==
  [][lastEvent'.op = "reset-stats"
       => /\ stats'.messagesReceived = 0
          /\ stats'.messagesSent = 0
          /\ stats'.messagesDelayed = 0
          /\ AverageLatency' = 0
          /\ RegistryState' = RegistryState
          /\ lastEvent.op = "reset-stats"
               => (stats' = stats /\ messageLatencies' = messageLatencies)]_vars

C21_Witness ==
  /\ lastEvent.op = "reset-stats"
  /\ messageQueue # EmptyMap
  /\ rooms # EmptyMap
  /\ stats.messagesReceived = 0

\* C22: WebRTCManager.close() closes every server instance the manager
\* created and forgets them all, and keeps the registered configurations:
\* once it is over getServerNames() is the set of the registered names and
\* hasServer() is true of exactly those.
C22_CloseKeepsTheConfigurations ==
  [][/\ lastManagerOp' \in {"closing", "closed"} => configs' = configs
     /\ lastManagerOp' = "closed"
          => /\ servers' = <<>>
             /\ \A i \in 1..Len(instances') : instances'[i] = "closed"
             /\ GetServerNames' = configs
             /\ \A n \in ManagerNames : HasServer(n)' <=> n \in configs]_vars

C22_Witness ==
  /\ lastManagerOp = "closed"
  /\ Len(instances) >= 2
  /\ configs # {}
  /\ configs # ManagerNames

(***************************************************************************)
(* Claims about the router's stamping, its ICE batches and its timers.     *)
(***************************************************************************)
\* Emission e carries the user and the room of the socket that sent the
\* message handled last.
CarriesRoomOfSender(e) ==
  e.payload.roomId = users[socketToUser[lastEvent'.socket]].roomId

CarriesSender(e) ==
  /\ e.payload.from = socketToUser[lastEvent'.socket]
  /\ CarriesRoomOfSender(e)

Routed == lastEvent'.op = "signaling" /\ ~SignalingRejected(lastEvent'.socket)

\* C23, as stated: every message the router forwards carries from = the user
\* id registered for the sending socket and roomId = that user's room.
C23_EveryForwardedMessageIsStamped ==
  [][Routed => \A i \in 1..Len(emitted') : CarriesSender(emitted'[i])]_vars

\* C23, amended: every message the router forwards as a "signaling" event,
\* at once or from the ICE queue of a room, carries from = the user id
\* registered for the sending socket and roomId = that user's room when the
\* router handled it, whatever the client wrote in the two fields; the
\* "architecture-mode" notice carries that roomId and no from.
C23_SignalingEventsAreStamped ==
  [][/\ Routed =>
          /\ \A i \in 1..Len(emitted') :
               IF emitted'[i].event = "signaling"
               THEN CarriesSender(emitted'[i])
               ELSE /\ CarriesRoomOfSender(emitted'[i])
                    /\ emitted'[i].payload.from = Undefined
          /\ lastEvent'.type = "ice-candidate" =>
               LET roomId == users[socketToUser[lastEvent'.socket]].roomId
                   queued == messageQueue'[roomId]
               IN /\ queued[Len(queued)].from = socketToUser[lastEvent'.socket]
                  /\ queued[Len(queued)].roomId = roomId
     /\ lastEvent'.op = "flush" =>
          \A i \in 1..Len(emitted') :
            /\ emitted'[i].payload.roomId = lastEvent'.roomId
            /\ \E k \in 1..Len(messageQueue[lastEvent'.roomId]) :
                 emitted'[i].payload = MessagePayload(messageQueue[lastEvent'.roomId][k])]_vars

\* A message of a user other than the one a client may claim to be, from a
\* room other than the one it may claim, has been forwarded with its stamps.
C23_Witness ==
  /\ lastEvent.op = "signaling"
  /\ lastEvent.type = "offer"
  /\ emitted # <<>>
  /\ MapHas(socketToUser, lastEvent.socket)
  /\ emitted[1].payload.from = socketToUser[lastEvent.socket]
  /\ emitted[1].payload.from \notin {Undefined, UserNames[1]}
  /\ emitted[1].payload.roomId = RoomNames[1]

\* Whether sequence a is sequence b with some of its elements left out.
RECURSIVE IsSubsequence(_, _)
IsSubsequence(a, b) ==
  IF a = <<>> THEN TRUE
  ELSE IF b = <<>> THEN FALSE
  ELSE IF Head(a) = Head(b) THEN IsSubsequence(Tail(a), Tail(b))
  ELSE IsSubsequence(a, Tail(b))

QueueOf(roomId) ==
  IF MapHas(messageQueue, roomId) THEN messageQueue[roomId] ELSE <<>>

\* C24: the ICE candidates queued for a room are delivered by the flush in
\* the order in which they were enqueued: a candidate goes behind the ones
\* already queued for its room, and what the flush emits is the queue in its
\* order, without the candidates it does not deliver.
C24_FlushKeepsTheOrderOfTheBatch ==
  [][/\ (Routed /\ lastEvent'.type = "ice-candidate") =>
          LET roomId == users[socketToUser[lastEvent'.socket]].roomId
              queued == messageQueue'[roomId]
          IN /\ Len(queued) = Len(QueueOf(roomId)) + 1
             /\ SubSeq(queued, 1, Len(queued) - 1) = QueueOf(roomId)
             /\ \A r \in DOMAIN messageQueue \ {roomId} :
                  messageQueue'[r] = messageQueue[r]
     /\ lastEvent'.op = "flush" =>
          IsSubsequence([i \in 1..Len(emitted') |-> emitted'[i].payload],
                        [k \in 1..Len(QueueOf(lastEvent'.roomId)) |->
                           MessagePayload(QueueOf(lastEvent'.roomId)[k])])]_vars

\* A flush has delivered two different candidates of one batch.
C24_Witness ==
  /\ lastEvent.op = "flush"
  /\ Len(emitted) >= 2
  /\ emitted[1].payload # emitted[2].payload

\* The rooms with a flush timer that has neither fired nor been cleared.
RoomsWithTimeout == {r \in RoomIds : flushTimeouts[r] > 0}

\* C25: a room has at most one pending ICE flush timer, and a timer is
\* pending for exactly the rooms that have an ICE queue; a flush removes the
\* whole queue of its room, and after it, as after close() for every room,
\* the room has neither a queue nor a timer.
C25_OneTimerPerQueue ==
  /\ [](/\ \A r \in RoomIds : flushTimeouts[r] <= 1
        /\ RoomsWithTimeout = DOMAIN messageQueue
        /\ messageQueueTimers = DOMAIN messageQueue
        /\ \A r \in DOMAIN messageQueue : messageQueue[r] # <<>>)
  /\ [][/\ lastEvent'.op = "flush" =>
             /\ lastEvent'.roomId \notin DOMAIN messageQueue'
             /\ lastEvent'.roomId \notin messageQueueTimers'
             /\ flushTimeouts'[lastEvent'.roomId] = 0
        /\ lastEvent'.op = "close" =>
             /\ messageQueue' = EmptyMap
             /\ messageQueueTimers' = {}
             /\ RoomsWithTimeout' = {}]_vars

\* A second candidate has been queued for a room whose timer is pending.
C25_Witness ==
  \E r \in DOMAIN messageQueue :
    /\ Len(messageQueue[r]) >= 2
    /\ flushTimeouts[r] = 1
    /\ r \in messageQueueTimers

\* C26: delayed timers are cancelled on teardown.  When a room is destroyed
\* no ICE flush timer stays pending for it, and when the client tears a peer
\* down no ICE send timer stays pending for it, so that no flush timer fires
\* for a room that is not there and no send timer for a peer that is not.
C26_TimersCancelledOnTeardown ==
  [][/\ \A r \in RoomIds :
          (r \in DOMAIN rooms /\ r \notin DOMAIN rooms') => flushTimeouts'[r] = 0
     /\ lastEvent'.op = "flush" => lastEvent'.roomId \in DOMAIN rooms
     /\ \A u \in IcePeers :
          (u \in peerConnections /\ u \notin peerConnections')
            => iceTimeouts'[u] = 0
     /\ lastIceOp'.op = "send" => lastIceOp'.live]_vars

\* What holds of the client: "user-left" and leaveRoom() leave no send timer
\* pending for a peer they tear down.
C26_UserLeftAndLeaveRoomCancel ==
  [][lastIceOp'.op \in {"remove", "leave"} =>
       \A u \in IcePeers :
         (u \in peerConnections /\ u \notin peerConnections')
           => /\ iceTimeouts'[u] = 0
              /\ u \notin iceCandidateTimers'
              /\ ~MapHas(iceCandidates', u)]_vars

\* The send timer of a peer that a switch of architecture closed has fired
\* and sent the candidates collected for it.
C26_SentForClosedPeer ==
  /\ lastIceOp.op = "send"
  /\ ~lastIceOp.live
  /\ lastIceOp.sent > 0

\* C27: in every reachable state the user-to-socket map has an entry for a
\* user id exactly when that user has a room, and the socket it gives has
\* that user as its socket-to-user entry.
C27_UserToSocketIsConsistent ==
  \A u \in UserIds :
    /\ MapHas(userToSocket, u) <=> (MapHas(users, u) /\ users[u].roomId # Undefined)
    /\ MapHas(userToSocket, u) =>
         /\ MapHas(socketToUser, userToSocket[u])
         /\ socketToUser[userToSocket[u]] = u

(***************************************************************************)
(* Claims about the configuration cache of the pool.                       *)
(***************************************************************************)
CachedKeys(cache) == {cache[i].key : i \in 1..Len(cache)}

C29_ForcedModeFollowsOnlyNotices ==
  [][FixedMode =>
       /\ lastClientEvent'.op \in MembershipEvents
            => currentArchitectureMode' = currentArchitectureMode
       /\ currentArchitectureMode' # currentArchitectureMode
            => /\ lastClientEvent'.op = "architecture-mode"
               /\ lastClientEvent'.mode # currentArchitectureMode
       /\ lastClientEvent'.op = "architecture-mode"
            => currentArchitectureMode' = lastClientEvent'.mode]_vars

\* A client configured for sfu has adopted mesh from a notification, with
\* the count of its room at the threshold.
C29_Witness ==
  /\ options.architectureMode = "sfu"
  /\ lastClientEvent.op = "architecture-mode"
  /\ lastClientEvent.mode = "mesh"
  /\ currentArchitectureMode = "mesh"
  /\ roomUserCount >= Threshold

\* In sequence t every a comes before every b.
Before(t, a, b) ==
  \A i, j \in 1..Len(t) : (t[i] = a /\ t[j] = b) => i < j

\* What of sequence t goes out on the signaling socket before the first
\* await of switchArchitecture returns.
SentAtOnce(t) ==
  SelectSeq(t, LAMBDA x : x \in {"sfu-disconnect", "architecture-mode",
                                  "sfu-connect"})

EmittedTypes(emits) == [i \in 1..Len(emits) |-> emits[i].type]

\* C30: in every switch of the architecture the mesh connection is closed,
\* and the SFU disconnected, before the architecture-mode notice is sent,
\* and the notice is sent before the SFU is connected, the local stream
\* published and the mesh connection made again; a switch from mesh with a
\* connection closes it and a switch sends one notice.  The steps of the
\* client that change the mode send what that order says.
C30_SwitchKeepsItsOrder ==
  /\ [](\A mode \in ArchitectureModes, available \in BOOLEAN,
           hasStream \in BOOLEAN :
          LET t == SwitchOrder(mode, clientRoomId, available, hasStream)
              r == SwitchArchitecture(mode, clientRoomId, available)
          IN mode # currentArchitectureMode =>
               /\ Before(t, "close-mesh", "architecture-mode")
               /\ Before(t, "sfu-disconnect", "architecture-mode")
               /\ Before(t, "architecture-mode", "sfu-connect")
               /\ Before(t, "architecture-mode", "sfu-publish")
               /\ Before(t, "sfu-connect", "sfu-publish")
               /\ Before(t, "architecture-mode", "initialize-mesh")
               /\ Len(SelectSeq(t, LAMBDA x : x = "architecture-mode")) = 1
               /\ (currentArchitectureMode = "mesh" /\ peerConnection # NoConnection)
                    => (Includes(t, "close-mesh") /\ r.peerConnection # peerConnection)
               /\ Includes(t, "close-mesh")
                    <=> r.closedConnections # closedConnections
               /\ Includes(t, "initialize-mesh") <=> r.acquires
               /\ SentAtOnce(t) = EmittedTypes(r.emitted))
  /\ [][currentArchitectureMode' # currentArchitectureMode =>
          \E available \in BOOLEAN :
            EmittedTypes(clientEmitted') =
              SentAtOnce(SwitchOrder(currentArchitectureMode', clientRoomId',
                                     available, FALSE))]_vars

\* A notice has taken a client with a mesh connection to sfu: the connection
\* is closed, the room notified and the SFU connected.
C30_Witness ==
  /\ lastClientEvent.op = "architecture-mode"
  /\ currentArchitectureMode = "sfu"
  /\ peerConnection = NoConnection
  /\ closedConnections # {}
  /\ sfuConnected
  /\ EmittedTypes(clientEmitted) = <<"architecture-mode", "sfu-connect">>

\* A client has gone from sfu back to mesh: the SFU is left, the room
\* notified and a mesh connection made.
C30_BackToMesh ==
  /\ currentArchitectureMode = "mesh"
  /\ ~sfuConnected
  /\ peerConnection # NoConnection
  /\ EmittedTypes(clientEmitted) = <<"sfu-disconnect", "architecture-mode">>

\* C31: at each sampling tick after the first, the bandwidth estimate is
\* 8 times the bytes received since the previous sample, divided by the
\* seconds elapsed since the previous sample.
C31_BandwidthIsTheRateSinceTheLastSample ==
  [][(sampleCount' > 1 /\ sampleCount' # sampleCount)
       => networkStats'.bandwidth * (clock' - clock)
            = 8 * (bytesReceived' - bytesAtLastSample)]_vars

\* C31: what the code computes instead: the second sample divides all the
\* bytes received so far by the elapsed time.
C31_SecondSampleIsCumulative ==
  [][(sampleCount' = 2 /\ sampleCount = 1)
       => networkStats'.bandwidth * (clock' - clock) = 8 * bytesReceived']_vars

\* C32: a failed offer creation on a stable connection is retried once; the
\* retry is not retried again when it fails too.
C32_RetriedAtMostOnce == retryDepth <= 1

\* C32: the retry of a retry is running: the second failure scheduled
\* another timer.
C32_RetryOfARetry ==
  retryDepth = 2 /\ offerTask.at = "createOffer" /\ errorCount = 2

\* C33: between resets the error counter counts every "error" event the
\* client emits.
C33_EveryErrorEventIsCounted == errorCount = errorEvents

\* C33: the events the counter misses are never more than it counts ones
\* that were not emitted: it never runs ahead of the events.
C33_CounterNeverAhead == errorCount <= errorEvents

\* C34: a task that was suspended while leaveRoom() or disconnect() ran
\* sends no offer and no answer afterwards and calls nothing on a
\* connection.
C34_NothingAfterLeaving ==
  ~(lastOfferOp.op \in {"act", "send"} /\ lastOfferOp.left)

\* C34: an answer is sent for a connection that leaveRoom() released while
\* the answer was being created.
C34_AnswerSentAfterLeaving ==
  /\ lastOfferOp.op = "send" /\ lastOfferOp.type = "answer"
  /\ lastOfferOp.left /\ lastOfferOp.released

(***************************************************************************)
(* Claims about room isolation, the member counts and the mode.            *)
(***************************************************************************)
\* The user of socket s and user userId are members of one room.
ShareARoom(s, userId) ==
  /\ MapHas(socketToUser, s)
  /\ \E r \in DOMAIN rooms :
       /\ Includes(rooms[r].users, userId)
       /\ Includes(rooms[r].users, socketToUser[s])

\* Emission e forwards a client's signaling message; the router's own error
\* replies are signaling events too, of type "error", and go to the sender.
Forwards(e) == e.event = "signaling" /\ e.payload.type # "error"

\* C35: whenever the server delivers a signaling message to a user, at once
\* or from an ICE batch, the sender and the recipient are members of the
\* same room at that moment.
C35_RoomIsolation ==
  \A i \in 1..Len(emitted) :
    Forwards(emitted[i]) =>
      \A s \in emitted[i].targets : ShareARoom(s, emitted[i].payload.from)

\* C35: a message addressed to a user of another room is delivered to them.
C35_DeliveredAcrossRooms ==
  /\ lastEvent.op = "signaling"
  /\ \E i \in 1..Len(emitted) :
       /\ Forwards(emitted[i])
       /\ emitted[i].payload.to # Undefined
       /\ \E s \in emitted[i].targets :
            /\ MapHas(socketToUser, s)
            /\ MapHas(users, socketToUser[s])
            /\ users[socketToUser[s]].roomId # emitted[i].payload.roomId

\* C35: the part that holds: a message with no addressee goes only to
\* sockets that are in the Socket.IO room of the sender's room.
C35_BroadcastStaysInTheSocketRoom ==
  \A i \in 1..Len(emitted) :
    (Forwards(emitted[i]) /\ emitted[i].payload.to = Undefined) =>
      \A s \in emitted[i].targets : emitted[i].payload.roomId \in ioRooms[s]

\* C36: once every user-joined and user-left event the server emitted has
\* been delivered, the roomUserCount of each client in a room is the number
\* of members the server's registry holds for that room.
C36_CountsAgreeOnceDelivered ==
  Quiescent =>
    \A p \in PeersInRoom : peerCount[p] = Len(rooms[PeerRoom].users)

\* C36: a member's count is one more than the registry's after another
\* member joined the room a second time.
C36_CountAboveTheRegistry ==
  /\ Quiescent
  /\ \E p \in PeersInRoom : peerCount[p] = Len(rooms[PeerRoom].users) + 1

\* C36: the part that holds: with clients that join only when they are in
\* no room, the counts agree with the registry once everything is
\* delivered.
C36_CountsAgreeWithoutRepeatedJoins ==
  [][Quiescent' =>
       \A p \in PeersInRoom' : peerCount'[p] = Len(rooms'[PeerRoom].users)]_vars

\* C37: the client's current architecture mode is always mesh or sfu, never
\* auto, whatever membership events and architecture-mode notices arrive.
C37_ModeIsMeshOrSfu == currentArchitectureMode \in {"mesh", "sfu"}

\* C37: a notice carrying "auto" has been handled and the current mode is
\* auto.
C37_ModeIsAuto ==
  /\ lastClientEvent.op = "architecture-mode"
  /\ currentArchitectureMode = "auto"

\* C37: the part that holds: clients that only hear of modes other clients
\* of the room switched to are always in mesh or sfu.
C37_AmongClientsMeshOrSfu == \A p \in PeerIds : peerMode[p] \in {"mesh", "sfu"}

(***************************************************************************)
(* Claims about the pool after leaveRoom(), the configuration a connection *)
(* is built with, and the messages recorded as processed.                  *)
(***************************************************************************)
\* C38: when leaveRoom() has returned the pool reports active = 0: every
\* connection the client acquired since joining has been released.
C38_LeaveRoomReleasesEverything ==
  lastClientEvent.op = "leaveRoom" =>
    poolStats.active = 0 /\ activeConnections = {}

\* C38: leaveRoom() has returned and a connection acquired by an earlier
\* joinRoom() is still active in the pool.
C38_ActiveAfterLeaveRoom ==
  /\ lastClientEvent.op = "leaveRoom"
  /\ peerConnection = NoConnection
  /\ poolStats.active > 0

\* C38: the part that holds: leaveRoom() releases the connection the
\* client holds when it is called.
C38_LeaveRoomReleasesTheCurrent ==
  [][lastClientEvent'.op = "leaveRoom" =>
       /\ peerConnection \notin activeConnections'
       /\ peerConnection' = NoConnection]_vars

\* C39: acquire(config) constructs the connection with a configuration
\* equal, field by field, to the config passed in, whatever was acquired
\* before.
C39_ConstructedWithTheConfigPassed ==
  [][\A c \in PoolConfigs : Acquire(c, TRUE) => lastPoolOp'.config = c]_vars

\* C39: a connection has been constructed with an iceCandidatePoolSize
\* other than every size that gives the cache key its configuration has.
C39_ConstructedWithAnotherSize ==
  /\ lastPoolOp.op = "acquire" /\ ~lastPoolOp.threw
  /\ Len(configCache) = 1
  /\ poolStats.created = 2
  /\ \E c \in PoolConfigs :
       /\ GetConfigKey(c) = GetConfigKey(lastPoolOp.config)
       /\ c.iceCandidatePoolSize # lastPoolOp.config.iceCandidatePoolSize

\* C39: the part that holds: the fields the cache key is made of are those
\* of the config passed in, and a config whose key is not cached is used
\* field by field.
C39_KeyFieldsAreThoseOfTheConfig ==
  [][\A c \in PoolConfigs : Acquire(c, TRUE) =>
       /\ GetConfigKey(lastPoolOp'.config) = GetConfigKey(c)
       /\ CacheIndex(GetConfigKey(c)) = 0 => lastPoolOp'.config = c]_vars

\* A message that handleSignaling dropped for want of a peer connection:
\* the client handles it itself and holds no connection.
DroppedForNoConnection(m) ==
  /\ ~RoutedToSfuAdapter(m)
  /\ GetMessageId(m) \notin processedSignalingIds
  /\ peerConnection = NoConnection

\* C40: a message is recorded as processed only if it was applied to a
\* peer connection: a message dropped because no peer connection existed
\* is not recorded.
C40_DroppedIsNotRecorded ==
  [][\A m \in SignalingMessages :
       (lastSignaling' = m /\ lastClientEvent'.op = "signaling"
          /\ DroppedForNoConnection(m))
         => GetMessageId(m) \notin processedSignalingIds']_vars

\* C40: a message dropped for want of a connection is applied when it is
\* delivered again after the connection exists: with a connection, a
\* message is applied unless one with its id was applied before.
C40_AppliedWhenDeliveredAgain ==
  [][\A m \in SignalingMessages :
       (/\ lastSignaling' = m /\ lastClientEvent'.op = "signaling"
        /\ ~RoutedToSfuAdapter(m)
        /\ peerConnection # NoConnection
        /\ \A n \in SignalingMessages :
             GetMessageId(n) = GetMessageId(m) => applied[n] = 0)
         => applied'[m] = 1]_vars

\* C40: a message is held as processed, the client has a connection, and
\* no connection was ever given the message.
C40_RecordedAndNeverApplied ==
  \E m \in SignalingMessages :
    /\ lastSignaling = m
    /\ GetMessageId(m) \in processedSignalingIds
    /\ peerConnection # NoConnection
    /\ \A n \in SignalingMessages :
         GetMessageId(n) = GetMessageId(m) => applied[n] = 0

====
